---- MODULE Spec2Model ----
(***************************************************************************)
(* Consensus coordinator of the node (class Consensus): the coordinator    *)
(* mutex, onBlockReceive, execute, stop, the fork-choice dispatch of       *)
(* _execute, _executeValidated, _verify, _deleteBlock, _deleteLastBlock    *)
(* and the error translation of _sync.                                     *)
(*                                                                         *)
(* Every concurrent caller is a task.  A task's pc is its position in the  *)
(* async function it runs; one action is one stretch of code between two   *)
(* suspension points (awaits).                                             *)
(***************************************************************************)
EXTENDS Integers, Sequences, FiniteSets, TLC

\* ------------------------------------------------------------------ bounds
NumTasks == 2
MaxHeight == 2
MaxTime == 1
MaxTimestamp == 0
NumGenerators == 2
MaxPrevoted == 1
MaxRestarts == 2
MaxValue == 2
MaxCommitHeight == 2
NumValidators == 2
CommitRangeStored == 1
MaxAggregateLag == 2
NumKeyRefs == 2
MaxUpdatedKeys == 3
NumAliases == 2
NumEventNames == 1
NumActionNames == 1
NumListeners == 2
MaxPublishes == 2
NumMembers == 2
MaxSignatures == 3

\* --------------------------------------------------------------- constants
BLOCK_VERSION == 2
GENESIS_VERSION == 0
PENALTY == 100
BlockTime == 1

Tasks == 1..NumTasks
Heights == 0..MaxHeight
Generators == 1..NumGenerators

VARIABLES
    blocks,                \* persisted blocks, by height (BLK:<height>)
    lastBlock,             \* chain.lastBlock, the tip
    finalizedHeight,       \* chain.finalizedHeight (CONSENSUS:finalizedHeight)
    maxHeightPrecommitted, \* persisted BFT heights
    stopFlag,              \* Consensus._stop
    nodeInfo,              \* what the network advertises of this node
    mutexLocked,           \* Mutex._locked
    mutexQueue,            \* Mutex._queue, the tasks waiting
    isActive,              \* Synchronizer.isActive
    now,                   \* wall clock, in seconds since genesis
    pc,                    \* per task: position
    op,                    \* per task: the public operation it runs
    data,                  \* per task: what onBlockReceive was handed
    arrival,               \* per task: when its data was received
    block,                 \* per task: the block it was called with
    execBlock,             \* per task: the block inside _executeValidated
    plan,                  \* per task: the caller of _executeValidated
    forkStatus,            \* per task: result of forkChoice
    previousLastBlock,     \* per task: the tip _execute read, and its clone
    bftVotes,              \* per task: maxHeightPrecommitted in its state store
    error,                 \* per task: the error the call rejected with
    caught,                \* per task: the error caught in the tie break
    emitted,               \* per task: events emitted by the call so far
    penalty,               \* per task: penalty applied to the peer by the call
    restarts,              \* per task: re-runs of _sync
    syncErrors,            \* per task: the errors _sync has caught, in order
    dbState,               \* consensus state in the database, by key
    storeData,             \* ConsensusStateStore._data
    storeInitialValue,     \* ConsensusStateStore._initialValue
    storeUpdatedKeys,      \* ConsensusStateStore._updatedKeys
    stateDiff,             \* the reverse diff saved with the tip (DIFF:<height>)
    storeTip,              \* height of the tip the state belongs to
    stateBefore,           \* tip and state when the execution of the tip began
    storePc,               \* "exec", "saved" or "deleted"
    nonGossipedCommits,    \* CommitPool._nonGossipedCommits, by height
    gossipedCommits,       \* CommitPool._gossipedCommits, by height
    poolFinalizedHeight,   \* chain.finalizedHeight as the pool reads it
    aggregateCommitHeight, \* by height: aggregateCommit.height of the header
    maxHeightCertified,    \* BFT heights as the pool reads them
    poolPrecommitted,      \* maxHeightPrecommitted as the pool reads it
    heightNextBFTParameters, \* height of the next parameter change, 0 if none
    validated,             \* the last commit validateCommit was given, its result
    selected,              \* the aggregate commit the last job published
    aggregateVerified,     \* the last aggregate given to verifyAggregateCommit
    css_db,                \* consensus state in the database, by key bytes
    css_data,              \* ConsensusStateStore._data, a BufferMap
    css_initialValue,      \* ConsensusStateStore._initialValue, a BufferMap
    css_updatedKeys,       \* ConsensusStateStore._updatedKeys, a Set<Buffer>
    css_stateDiff,         \* the StateDiff finalize returned
    css_batch,             \* the puts finalize made on the batch, in order
    css_pc,                \* "open", "finalized", "written" or "reverted"
    busEvents,             \* Bus.events, the registered event names
    busActions,            \* Bus.actions, the registered action names
    busChannels,           \* Bus.channels, by module alias
    busIpc,                \* Bus.config.ipc.enabled
    busListeners,          \* per callback: how it listens, calls it got
    busError,              \* what the last registerChannel call threw
    msTransaction,         \* the transaction in the multisignature pool
    msCall                 \* the last processSignature call and its outcome

storeVars == <<dbState, storeData, storeInitialValue, storeUpdatedKeys,
               stateDiff, storeTip, stateBefore, storePc>>
poolVars == <<nonGossipedCommits, gossipedCommits, poolFinalizedHeight,
              aggregateCommitHeight, maxHeightCertified, poolPrecommitted,
              heightNextBFTParameters, validated, selected, aggregateVerified>>
keyedVars == <<css_db, css_data, css_initialValue, css_updatedKeys,
               css_stateDiff, css_batch, css_pc>>
busVars == <<busEvents, busActions, busChannels, busIpc, busListeners,
            busError>>
msVars == <<msTransaction, msCall>>
besideKeyed == <<busVars, msVars>>
besideBus == <<keyedVars, msVars>>
besideMs == <<keyedVars, busVars>>
extraVars == <<keyedVars, busVars, msVars>>
sideVars == <<storeVars, poolVars, extraVars>>
chainVars == <<blocks, lastBlock, finalizedHeight, maxHeightPrecommitted>>
taskVars == <<pc, op, data, arrival, block, execBlock, plan, forkStatus, previousLastBlock,
              bftVotes, error, caught, emitted, penalty, restarts,
              syncErrors>>
vars == <<blocks, lastBlock, finalizedHeight, maxHeightPrecommitted, stopFlag,
          nodeInfo, sideVars,
          mutexLocked, mutexQueue, isActive, now, pc, op, data, arrival, block,
          execBlock,
          plan, forkStatus, previousLastBlock, bftVotes, error, caught,
          emitted, penalty, restarts, syncErrors>>

\* ------------------------------------------------------------------ blocks
\* The id of a block is the hash of its header: an injective function of the
\* header fields, the previous block's id among them.  receivedAt is local
\* bookkeeping and is not hashed.
NoID == <<>>

BlockID(b) ==
    <<b.height, b.generatorAddress, b.maxHeightPrevoted, b.timestamp,
      b.version>> \o b.previousBlockID

NoBlock ==
    [height |-> -1, previousBlockID |-> NoID, generatorAddress |-> 0,
     maxHeightPrevoted |-> 0, timestamp |-> 0, version |-> GENESIS_VERSION,
     receivedAt |-> 0]

GenesisBlock ==
    [height |-> 0, previousBlockID |-> NoID, generatorAddress |-> 0,
     maxHeightPrevoted |-> 0, timestamp |-> 0, version |-> GENESIS_VERSION,
     receivedAt |-> 0]

Max(a, b) == IF a > b THEN a ELSE b

\* Slots.getSlotNumber
SlotOf(timestamp) == timestamp \div BlockTime

ForkStatusIdentical == "IDENTICAL_BLOCK"
ForkStatusValid == "VALID_BLOCK"
ForkStatusDoubleForging == "DOUBLE_FORGING"
ForkStatusTieBreak == "TIE_BREAK"
ForkStatusDifferentChain == "DIFFERENT_CHAIN"
ForkStatusDiscard == "DISCARD"

forkStatusList ==
    {ForkStatusIdentical, ForkStatusValid, ForkStatusDoubleForging,
     ForkStatusTieBreak, ForkStatusDifferentChain, ForkStatusDiscard}

IsIdenticalBlock(H, T) == BlockID(H) = BlockID(T)

IsDoubleForging(H, T) ==
    /\ H.height = T.height
    /\ H.previousBlockID = T.previousBlockID
    /\ H.generatorAddress = T.generatorAddress

IsTieBreak(H, T, time) ==
    /\ H.height = T.height
    /\ SlotOf(H.timestamp) = SlotOf(T.timestamp)
    /\ SlotOf(H.timestamp) <= SlotOf(time)
    /\ SlotOf(T.receivedAt) > SlotOf(T.timestamp)

IsDifferentChain(H, T) ==
    \/ H.maxHeightPrevoted > T.maxHeightPrevoted
    \/ /\ H.maxHeightPrevoted = T.maxHeightPrevoted
       /\ H.height > T.height

IsValidBlock(H, T) ==
    /\ H.height = T.height + 1
    /\ H.previousBlockID = BlockID(T)

\* forkChoice(header, lastBlockHeader, slots): the first matching rule wins
forkChoice(H, T, time) ==
    IF IsIdenticalBlock(H, T) THEN ForkStatusIdentical
    ELSE IF IsDoubleForging(H, T) THEN ForkStatusDoubleForging
    ELSE IF IsTieBreak(H, T, time) THEN ForkStatusTieBreak
    ELSE IF IsDifferentChain(H, T) THEN ForkStatusDifferentChain
    ELSE IF IsValidBlock(H, T) THEN ForkStatusValid
    ELSE ForkStatusDiscard

\* ------------------------------------------------------------------ events
BLOCK_NEW == "BLOCK_NEW"
BLOCK_DELETE == "BLOCK_DELETE"
BLOCK_BROADCAST == "BLOCK_BROADCAST"
FORK_DETECTED == "FORK_DETECTED"

Event(type, b) == [type |-> type, id |-> BlockID(b)]

\* ------------------------------------------------------------------- inputs
Versions == {BLOCK_VERSION, BLOCK_VERSION + 1}

\* The header of a block made on top of parent id p at height h.
Header(h, p, g, m, ts, v, at) ==
    [height |-> h, previousBlockID |-> p, generatorAddress |-> g,
     maxHeightPrevoted |-> m, timestamp |-> ts, version |-> v,
     receivedAt |-> at]

\* Where a block a peer sends stands against the tip T: a sibling of T or a
\* child of T.
Placements(T) ==
    { pl \in { <<T.height, T.previousBlockID>>,
               <<T.height + 1, BlockID(T)>> } : pl[1] \in 1..MaxHeight }

\* Blocks a peer can send, received at time at.
ReceivedBlocks(T, at) ==
    { Header(pl[1], pl[2], g, m, ts, v, at) :
        pl \in Placements(T), g \in Generators, m \in 0..MaxPrevoted,
        ts \in 0..MaxTimestamp, v \in Versions }

\* What onBlockReceive can be handed that is not an encoded block: something
\* that is not a buffer, bytes that do not decode as a postBlock envelope, an
\* envelope whose block bytes do not decode.
Malformed == {"notBuffer", "badEnvelope", "badBlock"}

\* The generator address this node forges with.
LocalGenerator == CHOOSE g \in Generators : \A o \in Generators : g <= o

\* Blocks the generator hands to execute: built now on the tip it sees, with
\* a prevoted height that is not behind the tip's.
ForgedBlocks ==
    { Header(lastBlock.height + 1, BlockID(lastBlock), LocalGenerator, m, now,
             BLOCK_VERSION, now) :
        m \in lastBlock.maxHeightPrevoted..MaxPrevoted }

\* Blocks a peer serves to the synchronization that block H started.  The
\* peer's chain held H when it sent it: once H is next after the tip the
\* peer serves H, and once H is the tip it serves a block it has made on H.
SyncedBlocks(H) ==
    IF H.height = lastBlock.height + 1 /\ H.previousBlockID = BlockID(lastBlock)
    THEN {[H EXCEPT !.receivedAt = now]}
    ELSE IF BlockID(H) = BlockID(lastBlock) /\ H.height < MaxHeight
    THEN { Header(H.height + 1, BlockID(H), g, H.maxHeightPrevoted,
                  H.timestamp, BLOCK_VERSION, now) : g \in Generators }
    ELSE {}

\* --------------------------------------------------------------------- init
\* ------------------------------------------------------------- state store
\* A BufferMap is a function whose domain is the set of keys it holds.
Has(m, k) == k \in DOMAIN m
MapSet(m, k, v) == [x \in DOMAIN m \cup {k} |-> IF x = k THEN v ELSE m[x]]
MapDelete(m, k) == [x \in DOMAIN m \ {k} |-> m[x]]
EmptyMap == [x \in {} |-> 0]

CONSENSUS_STATE_FINALIZED_HEIGHT_KEY == "finalizedHeight"
ModuleKeys == {"validatorLedger", "forgersList"}
StateValues == 1..MaxValue

\* The consensus state after the genesis block: the finalized height alone.
GenesisState == [k \in {CONSENSUS_STATE_FINALIZED_HEIGHT_KEY} |-> 0]

\* new ConsensusStateStore on the state db, at the start of an execution.
StoreFresh(db) ==
    /\ dbState = db
    /\ storeData = EmptyMap
    /\ storeInitialValue = EmptyMap
    /\ storeUpdatedKeys = {}
    /\ stateDiff = [updated |-> {}, created |-> {}, deleted |-> {}]
    /\ storeTip = 0
    /\ stateBefore = [tip |-> 0, db |-> db]
    /\ storePc = "exec"

\* ------------------------------------------- state store: keys as Buffers
\* A key is a Buffer: its bytes and the object it is.  A BufferMap finds a
\* key by its bytes; === and a Set<Buffer> tell two Buffers of the same
\* bytes apart.
KeyRefs == 1..NumKeyRefs
KeyBytes == ModuleKeys \cup {CONSENSUS_STATE_FINALIZED_HEIGHT_KEY}
KeyBuffers == [bytes : KeyBytes, ref : KeyRefs]

\* The Buffer that constants.ts exports as the finalized-height key.
FinalizedHeightKeyBuffer ==
    [bytes |-> CONSENSUS_STATE_FINALIZED_HEIGHT_KEY, ref |-> 1]

DB_KEY_CONSENSUS_STATE == "consensusState"
concatKeys(prefix, key) == <<prefix, key.bytes>>

EmptyStateDiff == [updated |-> <<>>, created |-> <<>>, deleted |-> <<>>]

\* new ConsensusStateStore(dataAccess) on the database db.
KeyedFresh(db) ==
    /\ css_db = db
    /\ css_data = EmptyMap
    /\ css_initialValue = EmptyMap
    /\ css_updatedKeys = <<>>
    /\ css_stateDiff = EmptyStateDiff
    /\ css_batch = <<>>
    /\ css_pc = "open"

\* ---------------------------------------------------------------------- bus
ModuleAliases == 1..NumAliases
EventNames == 1..NumEventNames
ActionNames == 1..NumActionNames
Listeners == 1..NumListeners

\* `${moduleAlias}:${name}`
FullName(moduleAlias, name) == <<moduleAlias, name>>
EventKeys == { FullName(a, e) : a \in ModuleAliases, e \in EventNames }

NotListening == [kind |-> "none", eventName |-> <<>>, emitter |-> FALSE,
                 socket |-> FALSE, invoked |-> 0, published |-> 0]

\* new Bus(options, logger, config), and setup() done.
BusFresh(ipc) ==
    /\ busEvents = {}
    /\ busActions = {}
    /\ busChannels = EmptyMap
    /\ busIpc = ipc
    /\ busListeners = [cb \in Listeners |-> NotListening]
    /\ busError = "none"

\* ---------------------------------------------------------- multisignatures
\* The public keys of the members of the multisignature account; key 0 is
\* a key outside the group.  A signature is written as the key that made
\* it for the pooled transaction, 0 for one that no member made.
Members == 1..NumMembers
PublicKeys == 0..NumMembers
MULTI == "MULTI"
SEND == "SEND"
NoPublicKey == NumMembers + 1
PooledId == "pooled"
UnknownId == "unknown"
NoMsCall == [signature |-> [publicKey |-> NoPublicKey, signature |-> 0,
                            transactionId |-> PooledId],
             error |-> "none"]

\* Multisignature.prototype.ready: a registration needs the signature of
\* every member of the keysgroup, a transaction of the account multimin.
MultiMin == NumMembers
Ready(type, signatures) ==
    IF type = MULTI
    THEN Len(signatures) = NumMembers
    ELSE Len(signatures) >= MultiMin

\* A transaction as the multisignature pool holds it.
MsFresh(transaction) ==
    /\ msTransaction = transaction
    /\ msCall = NoMsCall

ExtraFresh ==
    /\ KeyedFresh(GenesisState)
    /\ BusFresh(FALSE)
    /\ MsFresh([type |-> MULTI, hasSignatures |-> FALSE,
                signatures |-> <<>>, ready |-> FALSE])

\* -------------------------------------------------------------- commit pool
CommitHeights == 1..MaxCommitHeight
\* The chain runs one block ahead of the heights commits are made for.
MaxChainHeight == MaxCommitHeight + 1
Validators == 1..NumValidators
\* An address that is in no validator set.
Outsider == NumValidators + 1

\* The empty aggregate commit of a header with none.
NoAggregates == [h \in 0..MaxChainHeight |-> 0]

EmptyPool == [h \in CommitHeights |-> <<>>]

EmptyAggregate(height) ==
    [height |-> height, aggregationBits |-> {}, certificateSignature |-> {}]

\* No validateCommit call has just answered.
NoValidation == [commit |-> <<>>, result |-> "none"]

\* No verifyAggregateCommit call has just answered.
NoVerification == [aggregate |-> <<>>, result |-> "none"]

\* new CommitPool on a chain whose headers carry the aggregate commit
\* heights agg and whose parameters change next at height next.
PoolFresh(agg, next) ==
    /\ nonGossipedCommits = EmptyPool
    /\ gossipedCommits = EmptyPool
    /\ poolFinalizedHeight = 0
    /\ aggregateCommitHeight = agg
    /\ maxHeightCertified = 0
    /\ poolPrecommitted = 0
    /\ heightNextBFTParameters = next
    /\ validated = NoValidation
    /\ selected = EmptyAggregate(0)
    /\ aggregateVerified = NoVerification

\* The node info applyNodeInfo is handed for block b.
NodeInfoOf(b) ==
    [height |-> b.height, lastBlockID |-> BlockID(b), blockVersion |-> b.version]

ConsensusInit ==
    /\ blocks = [h \in Heights |-> IF h = 0 THEN GenesisBlock ELSE NoBlock]
    /\ lastBlock = GenesisBlock
    /\ finalizedHeight = 0
    /\ maxHeightPrecommitted = 0
    /\ stopFlag = FALSE
    /\ nodeInfo = NodeInfoOf(GenesisBlock)
    /\ mutexLocked = FALSE
    /\ mutexQueue = <<>>
    /\ isActive = FALSE
    /\ now = 0
    /\ pc = [t \in Tasks |-> "idle"]
    /\ op = [t \in Tasks |-> "none"]
    /\ data = [t \in Tasks |-> "none"]
    /\ arrival = [t \in Tasks |-> 0]
    /\ block = [t \in Tasks |-> NoBlock]
    /\ execBlock = [t \in Tasks |-> NoBlock]
    /\ plan = [t \in Tasks |-> "none"]
    /\ forkStatus = [t \in Tasks |-> "none"]
    /\ previousLastBlock = [t \in Tasks |-> NoBlock]
    /\ bftVotes = [t \in Tasks |-> 0]
    /\ error = [t \in Tasks |-> "none"]
    /\ caught = [t \in Tasks |-> "none"]
    /\ emitted = [t \in Tasks |-> <<>>]
    /\ penalty = [t \in Tasks |-> 0]
    /\ restarts = [t \in Tasks |-> 0]
    /\ syncErrors = [t \in Tasks |-> <<>>]

\* A node that has just been initialised: the genesis block is the tip.
Init ==
    /\ ConsensusInit
    /\ StoreFresh(GenesisState)
    /\ PoolFresh(NoAggregates, 0)
    /\ ExtraFresh

\* -------------------------------------------------------------------- mutex
\* Where a task resumes once Mutex._tick hands it the lock.
EntryPc(waitPc) ==
    CASE waitPc = "wait_receive" -> "classify"
      [] waitPc = "wait_forge" -> "ev_verify"
      [] waitPc = "wait_stop" -> "done"
      [] waitPc = "wait_delete" -> "delete"
      [] OTHER -> waitPc

\* Mutex.acquire by task t: lock at once when free, queue otherwise.
Acquire(t, waitPc) ==
    IF mutexLocked
    THEN /\ mutexQueue' = Append(mutexQueue, t)
         /\ pc' = [pc EXCEPT ![t] = waitPc]
         /\ UNCHANGED mutexLocked
    ELSE /\ mutexLocked' = TRUE
         /\ pc' = [pc EXCEPT ![t] = EntryPc(waitPc)]
         /\ UNCHANGED mutexQueue

\* The release function of runExclusive, called when the worker of task t
\* ends: unlock and hand the lock to the first task waiting.
Release(t) ==
    IF mutexQueue = <<>>
    THEN /\ mutexLocked' = FALSE
         /\ pc' = [pc EXCEPT ![t] = "done"]
         /\ UNCHANGED mutexQueue
    ELSE /\ mutexLocked' = TRUE
         /\ mutexQueue' = Tail(mutexQueue)
         /\ pc' = [pc EXCEPT ![t] = "done",
                             ![Head(mutexQueue)] = EntryPc(pc[Head(mutexQueue)])]

Emit(t, type, b) == emitted' = [emitted EXCEPT ![t] = Append(@, Event(type, b))]

ApplyPenaltyOnPeer(t) == penalty' = [penalty EXCEPT ![t] = @ + PENALTY]

Throw(t, e) == error' = [error EXCEPT ![t] = e]

\* ----------------------------------------------------------- onBlockReceive
\* The outcome of a call is read by its caller before anything else runs: a
\* task that is done only returns.
NoneDone == \A u \in Tasks : pc[u] # "done"

\* syncing() with the gate left open.
SyncingNever == FALSE

\* syncing()
Syncing == isActive

\* What onBlockReceive rejects with for data it cannot use: nothing for data
\* that is no buffer (a plain return), the decoding error otherwise.
MalformedError(d) == IF d = "notBuffer" THEN "none" ELSE "DecodeError"

\* The synchronous head of onBlockReceive and of _execute, up to the await
\* of the mutex.  The fields of a block that decodes are drawn in Classify,
\* where the node first reads them.
OnBlockReceive(t) ==
    /\ NoneDone
    /\ pc[t] = "idle"
    /\ op' = [op EXCEPT ![t] = "onBlockReceive"]
    /\ arrival' = [arrival EXCEPT ![t] = now]
    /\ UNCHANGED <<chainVars, stopFlag, nodeInfo, sideVars, isActive, now, block, execBlock, plan,
                   forkStatus, previousLastBlock, bftVotes, caught, emitted,
                   restarts,
                   syncErrors>>
    /\ \E d \in Malformed \cup {"block"} :
          /\ data' = [data EXCEPT ![t] = d]
          /\ IF Syncing
             THEN /\ pc' = [pc EXCEPT ![t] = "done"]
                  /\ UNCHANGED <<mutexLocked, mutexQueue, error, penalty>>
             ELSE IF d \in Malformed
             THEN /\ ApplyPenaltyOnPeer(t)
                  /\ error' = [error EXCEPT ![t] = MalformedError(d)]
                  /\ pc' = [pc EXCEPT ![t] = "done"]
                  /\ UNCHANGED <<mutexLocked, mutexQueue>>
             ELSE /\ IF stopFlag
                     THEN /\ pc' = [pc EXCEPT ![t] = "done"]
                          /\ UNCHANGED <<mutexLocked, mutexQueue>>
                     ELSE Acquire(t, "wait_receive")
                  /\ UNCHANGED <<error, penalty>>

\* _verify: a block of another version is rejected, any other block is
\* handed to chain.verifyBlock, which accepts it or not.
VerifyOutcomes(b) == IF b.version # BLOCK_VERSION THEN {FALSE} ELSE BOOLEAN

\* The tie break handing the received block to _deleteBlock.
TieBreakVictimReceived(t) == block[t]

\* The block the tie break hands to _deleteBlock: the tip it read.
TieBreakVictim(t) == previousLastBlock[t]

\* The guard with < for <=: the block at the finalized height passes.
CanDeleteOffByOne(b) == ~(b.height < finalizedHeight)

\* chain.finalizedHeight guard of _deleteBlock
CanDelete(b) == ~(b.height <= finalizedHeight)

\* The event emitted ahead of the dispatch, for every status but VALID_BLOCK.
EmitsForkDetectedAhead(status) == status # ForkStatusValid

\* The event left out of the DOUBLE_FORGING branch.
EmitsForkDetectedNoDouble(status) ==
    status \in {ForkStatusDiscard, ForkStatusDifferentChain, ForkStatusTieBreak}

\* The branches of _execute that emit CONSENSUS_EVENT_FORK_DETECTED.
EmitsForkDetected(status) ==
    status \in {ForkStatusDiscard, ForkStatusDoubleForging,
                ForkStatusDifferentChain, ForkStatusTieBreak}

\* The dispatch of _execute on the fork status, up to the first await.
Dispatch(t, H, status) ==
    IF status \notin forkStatusList
    THEN /\ Throw(t, "Error")
         /\ Release(t)
         /\ UNCHANGED <<isActive, emitted, penalty>>
    ELSE IF status \in {ForkStatusIdentical, ForkStatusDiscard,
                        ForkStatusDoubleForging}
    THEN /\ IF EmitsForkDetected(status)
            THEN Emit(t, FORK_DETECTED, H)
            ELSE UNCHANGED emitted
         /\ Release(t)
         /\ UNCHANGED <<isActive, penalty, error>>
    ELSE IF status = ForkStatusDifferentChain
    THEN /\ IF EmitsForkDetected(status)
            THEN Emit(t, FORK_DETECTED, H)
            ELSE UNCHANGED emitted
         /\ IF stopFlag
            THEN /\ Release(t)
                 /\ UNCHANGED isActive
            ELSE /\ isActive' = TRUE
                 /\ pc' = [pc EXCEPT ![t] = "sync"]
                 /\ UNCHANGED <<mutexLocked, mutexQueue>>
         /\ UNCHANGED <<penalty, error>>
    ELSE \* TIE_BREAK and VALID_BLOCK start with _verify
         /\ IF EmitsForkDetected(status)
            THEN Emit(t, FORK_DETECTED, H)
            ELSE UNCHANGED emitted
         /\ pc' = [pc EXCEPT ![t] =
                      IF status = ForkStatusTieBreak
                      THEN "tb_verify" ELSE "verify"]
         /\ UNCHANGED <<mutexLocked, mutexQueue, penalty, error, isActive>>

\* The head of the worker of _execute: the tip is read and forkChoice
\* classifies the block against it.
Classify(t) ==
    /\ NoneDone
    /\ pc[t] = "classify"
    /\ \E H \in ReceivedBlocks(lastBlock, arrival[t]) :
          /\ block' = [block EXCEPT ![t] = H]
          /\ previousLastBlock' = [previousLastBlock EXCEPT ![t] = lastBlock]
          /\ forkStatus' = [forkStatus EXCEPT ![t] = forkChoice(H, lastBlock, now)]
          /\ Dispatch(t, H, forkChoice(H, lastBlock, now))
    /\ UNCHANGED <<chainVars, stopFlag, nodeInfo, sideVars, now, op, data, arrival, execBlock, plan,
                   bftVotes, caught, restarts,
                   syncErrors>>

\* The catch with the test of the error class turned round.
PenaltyForgotten(e) == IF e = "ApplyPenaltyError" THEN 0 ELSE PENALTY

\* The catch around _execute in onBlockReceive: what an error costs the peer.
PenaltyFor(e) == IF e = "ApplyPenaltyError" THEN PENALTY ELSE 0

\* _verify, and what follows it in _execute up to the next await.
Verify(t) ==
    /\ NoneDone
    /\ pc[t] \in {"verify", "tb_verify"}
    /\ UNCHANGED <<chainVars, stopFlag, nodeInfo, sideVars, isActive, now, op, data, arrival, block,
                   forkStatus, previousLastBlock, bftVotes, caught, emitted,
                   restarts,
                   syncErrors>>
    /\ \E verified \in VerifyOutcomes(block[t]) :
          IF ~verified
          THEN /\ Throw(t, "ApplyPenaltyError")
               /\ penalty' = [penalty EXCEPT
                                ![t] = @ + PenaltyFor("ApplyPenaltyError")]
               /\ Release(t)
               /\ UNCHANGED <<execBlock, plan>>
          ELSE IF pc[t] = "verify"
          THEN /\ execBlock' = [execBlock EXCEPT ![t] = block[t]]
               /\ plan' = [plan EXCEPT ![t] = "valid"]
               /\ pc' = [pc EXCEPT ![t] = "ev_verify"]
               /\ UNCHANGED <<mutexLocked, mutexQueue, error, penalty>>
          ELSE /\ IF CanDelete(TieBreakVictim(t))
                  THEN /\ pc' = [pc EXCEPT ![t] = "tb_delete"]
                       /\ UNCHANGED <<mutexLocked, mutexQueue, error>>
                  ELSE /\ Throw(t, "Error")
                       /\ Release(t)
               /\ UNCHANGED <<execBlock, plan, penalty>>

\* chain.removeBlock: the block leaves the store and its parent is the tip
\* again; the finalized height and the BFT heights stay.
RemoveBlock(b) ==
    /\ blocks' = [blocks EXCEPT ![b.height] = NoBlock]
    /\ lastBlock' = blocks[b.height - 1]
    /\ UNCHANGED <<finalizedHeight, maxHeightPrecommitted>>

\* _deleteBlock of the tie break after its await of chain.removeBlock, then
\* the entry of _executeValidated(block).
TieBreakDelete(t) ==
    /\ NoneDone
    /\ pc[t] = "tb_delete"
    /\ RemoveBlock(TieBreakVictim(t))
    /\ Emit(t, BLOCK_DELETE, TieBreakVictim(t))
    /\ execBlock' = [execBlock EXCEPT ![t] = block[t]]
    /\ plan' = [plan EXCEPT ![t] = "tiebreak"]
    /\ pc' = [pc EXCEPT ![t] = "ev_verify"]
    /\ UNCHANGED <<stopFlag, nodeInfo, sideVars, mutexLocked, mutexQueue, isActive, now, op, data,
                   arrival, block, forkStatus, previousLastBlock, bftVotes,
                   error, caught, penalty, restarts,
                   syncErrors>>

\* -------------------------------------------------------- _executeValidated
\* skipBroadcast passed by the synchronizer alone, not by the restore.
SkipBroadcastSyncOnly(t) == plan[t] = "sync"

\* Blocks executed for a caller that passes skipBroadcast.
SkipBroadcast(t) == plan[t] \in {"restore", "sync"}

\* Whether the state machine can reject the block: any block can be found
\* wrong, but the tip that is restored ran on this very state before.
Outcomes(t) == IF plan[t] = "restore" THEN {TRUE} ELSE BOOLEAN

\* The catch of _sync penalising the peer for either restart.
PenalisedRestartEither(e) ==
    e \in {"ApplyPenaltyAndRestartError", "RestartError"}

\* The catch of _sync: the error that costs the peer a penalty.
PenalisedRestart(e) == e = "ApplyPenaltyAndRestartError"

\* The catch of _sync rethrowing the AbortError too.
SyncRethrownAlways(e) == e

\* The catch of _sync for an error that is no restart: AbortError is logged
\* and the call returns, anything else is thrown again.
SyncRethrown(e) == IF e = "AbortError" THEN "none" ELSE e

\* _sync once synchronizer.run has thrown e (isActive is false again):
\* penalty and re-run, re-run, or give up.
SyncFailed(t, e) ==
    /\ syncErrors' = [syncErrors EXCEPT ![t] = Append(@, e)]
    /\ IF PenalisedRestart(e)
       THEN ApplyPenaltyOnPeer(t)
       ELSE UNCHANGED penalty
    /\ IF e \in {"ApplyPenaltyAndRestartError", "RestartError"}
       THEN /\ UNCHANGED error
            /\ IF stopFlag
               THEN /\ isActive' = FALSE
                    /\ Release(t)
                    /\ UNCHANGED restarts
               ELSE /\ isActive' = TRUE
                    /\ restarts' = [restarts EXCEPT ![t] = @ + 1]
                    /\ pc' = [pc EXCEPT ![t] = "sync"]
                    /\ UNCHANGED <<mutexLocked, mutexQueue>>
       ELSE /\ isActive' = FALSE
            /\ error' = [error EXCEPT ![t] = SyncRethrown(e)]
            /\ Release(t)
            /\ UNCHANGED restarts

\* An error thrown inside _executeValidated, as its caller handles it.
ExecFailed(t) ==
    IF plan[t] = "tiebreak"
    THEN /\ caught' = [caught EXCEPT ![t] = "Error"]
         /\ execBlock' = [execBlock EXCEPT ![t] = previousLastBlock[t]]
         /\ plan' = [plan EXCEPT ![t] = "restore"]
         /\ pc' = [pc EXCEPT ![t] = "ev_verify"]
         /\ UNCHANGED <<mutexLocked, mutexQueue, isActive, error, penalty,
                        restarts,
                   syncErrors>>
    ELSE IF plan[t] = "sync"
    THEN /\ SyncFailed(t, "ApplyPenaltyAndRestartError")
         /\ UNCHANGED <<execBlock, plan, caught>>
    ELSE /\ Throw(t, "Error")
         /\ Release(t)
         /\ UNCHANGED <<execBlock, plan, caught, isActive, penalty, restarts,
                   syncErrors>>

\* A failure of a synced block restarts the synchronization: it is offered
\* only while restarts are left.
MayFail(t) == plan[t] = "sync" => restarts[t] < MaxRestarts

\* stateMachine.verifyBlock, then network.send and BLOCK_BROADCAST.
ExecVerify(t) ==
    /\ NoneDone
    /\ pc[t] = "ev_verify"
    /\ UNCHANGED <<chainVars, stopFlag, nodeInfo, sideVars, now, op, data, arrival, block, forkStatus,
                   previousLastBlock, bftVotes>>
    /\ \E accepted \in Outcomes(t) :
          IF ~accepted
          THEN /\ MayFail(t)
               /\ ExecFailed(t)
               /\ UNCHANGED emitted
          ELSE /\ IF SkipBroadcast(t)
                  THEN UNCHANGED emitted
                  ELSE Emit(t, BLOCK_BROADCAST, execBlock[t])
               /\ pc' = [pc EXCEPT ![t] = "ev_exec"]
               /\ UNCHANGED <<mutexLocked, mutexQueue, isActive, execBlock,
                              plan, error, caught, penalty, restarts,
                   syncErrors>>

\* The BFT heights after the block: maxHeightPrecommitted never goes back and
\* never passes the block that was executed.
BFTHeightsAfter(b) ==
    maxHeightPrecommitted .. Max(maxHeightPrecommitted, b.height)

\* stateMachine.executeBlock, then bftAPI.getBFTHeights on the same store.
ExecBlock(t) ==
    /\ NoneDone
    /\ pc[t] = "ev_exec"
    /\ UNCHANGED <<chainVars, stopFlag, nodeInfo, sideVars, now, op, data, arrival, block, forkStatus,
                   previousLastBlock, emitted>>
    /\ \E executed \in Outcomes(t) :
          IF ~executed
          THEN /\ MayFail(t)
               /\ ExecFailed(t)
               /\ UNCHANGED bftVotes
          ELSE /\ \E m \in BFTHeightsAfter(execBlock[t]) :
                     bftVotes' = [bftVotes EXCEPT ![t] = m]
               /\ pc' = [pc EXCEPT ![t] = "ev_save"]
               /\ UNCHANGED <<mutexLocked, mutexQueue, isActive, execBlock,
                              plan, error, caught, penalty, restarts,
                   syncErrors>>

\* The local not initialised from the chain: 0 unless the votes are higher.
NewFinalizedHeightUninitialised(votes) ==
    IF votes > finalizedHeight THEN votes ELSE 0

\* The finalized height _executeValidated hands to chain.saveBlock.
NewFinalizedHeight(votes) ==
    IF votes > finalizedHeight THEN votes ELSE finalizedHeight

\* chain.saveBlock: one batch with the block, the state of the store and the
\* finalized height; the block is the tip.
SaveBlock(b, votes, fh) ==
    /\ blocks' = [blocks EXCEPT ![b.height] = b]
    /\ lastBlock' = b
    /\ finalizedHeight' = fh
    /\ maxHeightPrecommitted' = votes

\* The callers of _executeValidated that call network.applyNodeInfo once it
\* has returned: the VALID_BLOCK branch of _execute alone.
AppliesNodeInfo(t) == plan[t] = "valid"

\* BLOCK_NEW emitted ahead of the save, whatever becomes of it.
BlockNewBeforeSave(saved) == TRUE

\* BLOCK_NEW is emitted once chain.saveBlock has resolved.
BlockNewAfterSave(saved) == saved

\* The tail of _executeValidated (saveBlock, BLOCK_NEW) and the return to
\* its caller.
ExecSave(t) ==
    /\ NoneDone
    /\ pc[t] = "ev_save"
    /\ UNCHANGED <<stopFlag, sideVars, now, op, data, arrival, block,
                   forkStatus, previousLastBlock, bftVotes>>
    /\ \E saved \in Outcomes(t) :
          /\ IF BlockNewAfterSave(saved)
             THEN Emit(t, BLOCK_NEW, execBlock[t])
             ELSE UNCHANGED emitted
          /\ IF ~saved
             THEN /\ MayFail(t)
                  /\ ExecFailed(t)
                  /\ UNCHANGED <<chainVars, nodeInfo>>
             ELSE /\ SaveBlock(execBlock[t], bftVotes[t],
                               NewFinalizedHeight(bftVotes[t]))
                  /\ IF plan[t] = "sync"
                     THEN /\ pc' = [pc EXCEPT ![t] = "sync"]
                          /\ UNCHANGED <<mutexLocked, mutexQueue>>
                     ELSE Release(t)
                  /\ IF AppliesNodeInfo(t)
                     THEN nodeInfo' = NodeInfoOf(execBlock[t])
                     ELSE UNCHANGED nodeInfo
                  /\ UNCHANGED <<isActive, execBlock, plan, error, caught,
                                 penalty, restarts,
                   syncErrors>>

\* ------------------------------------------------------------ execute, stop
\* The generator makes one block at a time: it awaits execute before it
\* makes the next.
GeneratorIdle == \A u \in Tasks : op[u] # "execute"

\* execute(block) running _executeValidated without runExclusive.
ExecuteUnlocked(t) ==
    /\ NoneDone
    /\ pc[t] = "idle"
    /\ GeneratorIdle
    /\ lastBlock.height < MaxHeight
    /\ \E b \in ForgedBlocks :
          /\ block' = [block EXCEPT ![t] = b]
          /\ execBlock' = [execBlock EXCEPT ![t] = b]
    /\ op' = [op EXCEPT ![t] = "execute"]
    /\ plan' = [plan EXCEPT ![t] = "forge"]
    /\ arrival' = [arrival EXCEPT ![t] = now]
    /\ pc' = [pc EXCEPT ![t] = "ev_verify"]
    /\ UNCHANGED <<chainVars, stopFlag, nodeInfo, sideVars, mutexLocked, mutexQueue, isActive, now,
                   data, forkStatus, previousLastBlock, bftVotes, error,
                   caught, emitted, penalty, restarts,
                   syncErrors>>

\* execute(block), called by the generator with a block built on the tip.
Execute(t) ==
    /\ NoneDone
    /\ pc[t] = "idle"
    /\ GeneratorIdle
    /\ lastBlock.height < MaxHeight
    /\ \E b \in ForgedBlocks :
          /\ block' = [block EXCEPT ![t] = b]
          /\ execBlock' = [execBlock EXCEPT ![t] = b]
    /\ op' = [op EXCEPT ![t] = "execute"]
    /\ plan' = [plan EXCEPT ![t] = "forge"]
    /\ arrival' = [arrival EXCEPT ![t] = now]
    /\ Acquire(t, "wait_forge")
    /\ UNCHANGED <<chainVars, stopFlag, nodeInfo, sideVars, isActive, now, data, forkStatus,
                   previousLastBlock, bftVotes, error, caught, emitted,
                   penalty, restarts,
                   syncErrors>>

\* stop() that sets the flag and returns without the mutex.
StopWithoutAcquire(t) ==
    /\ NoneDone
    /\ pc[t] = "idle"
    /\ ~stopFlag
    /\ stopFlag' = TRUE
    /\ op' = [op EXCEPT ![t] = "stop"]
    /\ pc' = [pc EXCEPT ![t] = "done"]
    /\ UNCHANGED <<chainVars, nodeInfo, sideVars, mutexLocked, mutexQueue, isActive, now,
                   data, arrival, block, execBlock, plan, forkStatus,
                   previousLastBlock, bftVotes, error, caught, emitted,
                   penalty, restarts,
                   syncErrors>>

\* stop(): set the flag and acquire the mutex, which is never released.
Stop(t) ==
    /\ NoneDone
    /\ pc[t] = "idle"
    /\ ~stopFlag
    /\ stopFlag' = TRUE
    /\ op' = [op EXCEPT ![t] = "stop"]
    /\ Acquire(t, "wait_stop")
    /\ UNCHANGED <<chainVars, nodeInfo, sideVars, isActive, now, data, arrival, block,
                   execBlock, plan, forkStatus, previousLastBlock, bftVotes, error,
                   caught, emitted, penalty, restarts,
                   syncErrors>>

\* --------------------------------------------------------------------- sync
\* The peer of a running synchronization times out (RestartError), shares no
\* block with this node (AbortError), or the mechanism fails otherwise.
SyncPeerFails(t) ==
    /\ NoneDone
    /\ pc[t] = "sync"
    /\ \E e \in {"RestartError", "AbortError", "Error"} :
          /\ e = "RestartError" => restarts[t] < MaxRestarts
          /\ SyncFailed(t, e)
    /\ UNCHANGED <<chainVars, stopFlag, nodeInfo, sideVars, now, op, data, arrival, block, execBlock,
                   plan, forkStatus, previousLastBlock, bftVotes, caught,
                   emitted>>

\* The mechanism reverts the tip: blockExecutor.deleteLastBlock, which is
\* _deleteLastBlock: nothing once stopped, else runExclusive on the mutex.
SyncDeleteLastBlock(t) ==
    /\ NoneDone
    /\ pc[t] = "sync"
    /\ lastBlock.height > finalizedHeight
    /\ IF stopFlag
       THEN UNCHANGED <<pc, mutexLocked, mutexQueue>>
       ELSE Acquire(t, "wait_delete")
    /\ UNCHANGED <<chainVars, stopFlag, nodeInfo, sideVars, isActive, now, op, data, arrival, block,
                   execBlock, plan, forkStatus, previousLastBlock, bftVotes,
                   error, caught, emitted, penalty, restarts,
                   syncErrors>>

\* The mechanism applies the next block of the peer: blockExecutor.verify,
\* then blockExecutor.executeValidated with skipBroadcast.
SyncApplyBlock(t) ==
    /\ NoneDone
    /\ pc[t] = "sync"
    /\ lastBlock.height < MaxHeight
    /\ \E b \in SyncedBlocks(block[t]) :
       \E verified \in VerifyOutcomes(b) :
          IF ~verified
          THEN /\ restarts[t] < MaxRestarts
               /\ SyncFailed(t, "ApplyPenaltyAndRestartError")
               /\ UNCHANGED <<execBlock, plan>>
          ELSE /\ execBlock' = [execBlock EXCEPT ![t] = b]
               /\ plan' = [plan EXCEPT ![t] = "sync"]
               /\ pc' = [pc EXCEPT ![t] = "ev_verify"]
               /\ UNCHANGED <<mutexLocked, mutexQueue, isActive, error,
                              penalty, restarts,
                   syncErrors>>
    /\ UNCHANGED <<chainVars, stopFlag, nodeInfo, sideVars, now, op, data, arrival, block, forkStatus,
                   previousLastBlock, bftVotes, caught, emitted>>

\* synchronizer.run returns: the node has the peer's chain.
SyncFinish(t) ==
    /\ NoneDone
    /\ pc[t] = "sync"
    /\ isActive' = FALSE
    /\ Release(t)
    /\ UNCHANGED <<chainVars, stopFlag, nodeInfo, sideVars, now, op, data, arrival, block, execBlock,
                   plan, forkStatus, previousLastBlock, bftVotes, error,
                   caught, emitted, penalty, restarts,
                   syncErrors>>

\* ------------------------------------------------------------- environment
\* The caller has seen the outcome; the task is free for the next call.
Return(t) ==
    /\ pc[t] = "done"
    /\ pc' = [pc EXCEPT ![t] = "idle"]
    /\ op' = [op EXCEPT ![t] = "none"]
    /\ data' = [data EXCEPT ![t] = "none"]
    /\ arrival' = [arrival EXCEPT ![t] = 0]
    /\ block' = [block EXCEPT ![t] = NoBlock]
    /\ execBlock' = [execBlock EXCEPT ![t] = NoBlock]
    /\ plan' = [plan EXCEPT ![t] = "none"]
    /\ forkStatus' = [forkStatus EXCEPT ![t] = "none"]
    /\ previousLastBlock' = [previousLastBlock EXCEPT ![t] = NoBlock]
    /\ bftVotes' = [bftVotes EXCEPT ![t] = 0]
    /\ error' = [error EXCEPT ![t] = "none"]
    /\ caught' = [caught EXCEPT ![t] = "none"]
    /\ emitted' = [emitted EXCEPT ![t] = <<>>]
    /\ penalty' = [penalty EXCEPT ![t] = 0]
    /\ restarts' = [restarts EXCEPT ![t] = 0]
    /\ syncErrors' = [syncErrors EXCEPT ![t] = <<>>]
    /\ UNCHANGED <<chainVars, stopFlag, nodeInfo, sideVars, mutexLocked, mutexQueue, isActive, now>>

Tick ==
    /\ NoneDone
    /\ now < MaxTime
    /\ now' = now + 1
    /\ UNCHANGED <<chainVars, stopFlag, nodeInfo, sideVars, mutexLocked, mutexQueue, isActive,
                   taskVars>>

Next ==
    \/ Tick
    \/ \E t \in Tasks :
          \/ OnBlockReceive(t)
          \/ Classify(t)
          \/ Verify(t)
          \/ TieBreakDelete(t)
          \/ ExecVerify(t)
          \/ ExecBlock(t)
          \/ ExecSave(t)
          \/ Execute(t)
          \/ Stop(t)
          \/ SyncPeerFails(t)
          \/ SyncDeleteLastBlock(t)
          \/ SyncApplyBlock(t)
          \/ SyncFinish(t)
          \/ Return(t)

Spec == Init /\ [][Next]_vars

\* The event loop runs a continuation whenever one is ready: the system does
\* not stop while a step is possible.
LiveSpec == Spec /\ WF_vars(Next)

\* ---------------------------------------- state store: execute and delete
\* The round trip of one block through the consensus state store: a block is
\* executed on a fresh store (get, set), saved (finalize into the batch, the
\* reverse diff kept), and deleted again (the reverse diff applied).
consensusVars == <<chainVars, stopFlag, nodeInfo, mutexLocked, mutexQueue,
                   isActive, now, taskVars>>

StateKeys == ModuleKeys \cup {CONSENSUS_STATE_FINALIZED_HEIGHT_KEY}

\* The consensus states a node can hold: the finalized height and any of the
\* keys of the modules.
StateMaps ==
    UNION { { [k \in D \cup {CONSENSUS_STATE_FINALIZED_HEIGHT_KEY} |->
                 IF k = CONSENSUS_STATE_FINALIZED_HEIGHT_KEY THEN 0 ELSE f[k]]
              : f \in [D -> StateValues] }
            : D \in SUBSET ModuleKeys }

StoreInit ==
    /\ ConsensusInit
    /\ \E db \in StateMaps : StoreFresh(db)
    /\ PoolFresh(NoAggregates, 0)
    /\ ExtraFresh

\* ConsensusStateStore.get of a key that is not cached and is in the
\* database (any other get changes nothing).
StoreGet(k) ==
    /\ storePc = "exec"
    /\ ~Has(storeData, k)
    /\ Has(dbState, k)
    /\ storeInitialValue' =
           IF k # CONSENSUS_STATE_FINALIZED_HEIGHT_KEY
           THEN MapSet(storeInitialValue, k, dbState[k])
           ELSE storeInitialValue
    /\ storeData' = MapSet(storeData, k, dbState[k])
    /\ UNCHANGED <<dbState, storeUpdatedKeys, stateDiff, storeTip, stateBefore,
                   storePc, consensusVars, poolVars, extraVars>>

\* The modules that keep consensus state read a key before they write it.
ReadBeforeWrite(k) == Has(dbState, k) => Has(storeData, k)

\* ConsensusStateStore.set, called by a module while the block executes.
StoreSet(k, v) ==
    /\ storePc = "exec"
    /\ ReadBeforeWrite(k)
    /\ storeData' = MapSet(storeData, k, v)
    /\ storeUpdatedKeys' = storeUpdatedKeys \cup {k}
    /\ UNCHANGED <<dbState, storeInitialValue, stateDiff, storeTip, stateBefore,
                   storePc, consensusVars, poolVars, extraVars>>

\* The diff keeping the value written in place of the value read.
DiffedValueWritten(k) == storeData[k]

\* The value finalize keeps in the diff for an updated key: the one read.
DiffedValue(k) == storeInitialValue[k]

\* ConsensusStateStore.finalize: the diff of the keys in updatedKeys, the
\* finalized height left out.
Finalize(values, updatedKeys) ==
    LET diffed == updatedKeys \ {CONSENSUS_STATE_FINALIZED_HEIGHT_KEY}
    IN  [updated |-> { <<k, DiffedValue(k)>> :
                         k \in { x \in diffed : /\ Has(storeInitialValue, x)
                                                /\ storeInitialValue[x] # values[x] } },
         created |-> { k \in diffed : ~Has(storeInitialValue, k) },
         deleted |-> {}]

\* batch.put of every updated key.
BatchPut(db, values, updatedKeys) ==
    [k \in DOMAIN db \cup updatedKeys |->
        IF k \in updatedKeys THEN values[k] ELSE db[k]]

\* The end of _executeValidated: the finalized height is raised to the
\* precommitted height if that is higher, and chain.saveBlock writes it with
\* the state of the store in one batch.
StoreSave ==
    /\ storePc = "exec"
    /\ storeTip < MaxHeight
    /\ \E fh \in dbState[CONSENSUS_STATE_FINALIZED_HEIGHT_KEY] .. storeTip + 1 :
          LET values == MapSet(storeData, CONSENSUS_STATE_FINALIZED_HEIGHT_KEY, fh)
              updatedKeys ==
                  storeUpdatedKeys \cup {CONSENSUS_STATE_FINALIZED_HEIGHT_KEY}
          IN  /\ dbState' = BatchPut(dbState, values, updatedKeys)
              /\ stateDiff' = Finalize(values, updatedKeys)
    /\ storeTip' = storeTip + 1
    /\ storePc' = "saved"
    /\ UNCHANGED <<storeData, storeInitialValue, storeUpdatedKeys, stateBefore,
                   consensusVars, poolVars, extraVars>>

\* The reverse diff applied: created keys leave, updated keys get the value
\* of the diff.
Revert(db, diff) ==
    [k \in DOMAIN db \ diff.created |->
        IF \E u \in diff.updated : u[1] = k
        THEN (CHOOSE u \in diff.updated : u[1] = k)[2]
        ELSE db[k]]

\* _deleteBlock of the tip: refused at or below the finalized height, else
\* chain.removeBlock.
StoreDelete ==
    /\ storePc = "saved"
    /\ ~(storeTip <= dbState[CONSENSUS_STATE_FINALIZED_HEIGHT_KEY])
    /\ dbState' = Revert(dbState, stateDiff)
    /\ storeTip' = storeTip - 1
    /\ storePc' = "deleted"
    /\ UNCHANGED <<storeData, storeInitialValue, storeUpdatedKeys, stateDiff,
                   stateBefore, consensusVars, poolVars, extraVars>>

\* The next block starts to execute on a new store.
StoreBegin ==
    /\ storePc \in {"saved", "deleted"}
    /\ storeTip < MaxHeight
    /\ storeData' = EmptyMap
    /\ storeInitialValue' = EmptyMap
    /\ storeUpdatedKeys' = {}
    /\ stateBefore' = [tip |-> storeTip, db |-> dbState]
    /\ storePc' = "exec"
    /\ UNCHANGED <<dbState, stateDiff, storeTip, consensusVars, poolVars, extraVars>>

StoreNext ==
    \/ StoreBegin
    \/ StoreSave
    \/ StoreDelete
    \/ \E k \in StateKeys : StoreGet(k)
    \/ \E k \in ModuleKeys, v \in StateValues : StoreSet(k, v)

StoreSpec == StoreInit /\ [][StoreNext]_vars

\* ------------------------------------- state store: get, set and finalize
\* The ConsensusStateStore as its callers may use it: any key Buffer, read
\* or not before it is written.
KeyedInit ==
    /\ ConsensusInit
    /\ StoreFresh(GenesisState)
    /\ PoolFresh(NoAggregates, 0)
    /\ \E db \in StateMaps : KeyedFresh(db)
    /\ BusFresh(FALSE)
    /\ MsFresh([type |-> MULTI, hasSignatures |-> FALSE,
                signatures |-> <<>>, ready |-> FALSE])

SeqOf(q) == { q[i] : i \in 1..Len(q) }

\* ConsensusStateStore.get of a key that is not cached and is in the
\* database: the value is cached, and kept as the initial value unless the
\* key is the exported finalized-height Buffer.
KeyedGet(key) ==
    /\ css_pc = "open"
    /\ ~Has(css_data, key.bytes)
    /\ Has(css_db, key.bytes)
    /\ css_initialValue' =
           IF key # FinalizedHeightKeyBuffer
           THEN MapSet(css_initialValue, key.bytes, css_db[key.bytes])
           ELSE css_initialValue
    /\ css_data' = MapSet(css_data, key.bytes, css_db[key.bytes])
    /\ UNCHANGED <<css_db, css_updatedKeys, css_stateDiff, css_batch, css_pc,
                   consensusVars, storeVars, poolVars, besideKeyed>>

\* ConsensusStateStore.set.
KeyedSet(key, value) ==
    /\ css_pc = "open"
    /\ key \in SeqOf(css_updatedKeys) \/ Len(css_updatedKeys) < MaxUpdatedKeys
    /\ css_data' = MapSet(css_data, key.bytes, value)
    /\ css_updatedKeys' =
           IF key \in SeqOf(css_updatedKeys)
           THEN css_updatedKeys
           ELSE Append(css_updatedKeys, key)
    /\ UNCHANGED <<css_db, css_initialValue, css_stateDiff, css_batch, css_pc,
                   consensusVars, storeVars, poolVars, besideKeyed>>

\* The loop of finalize over the updated keys: every key is put on the
\* batch; the exported finalized-height Buffer is skipped, any other key is
\* listed as updated with its initial value when that differs, as created
\* when there is no initial value.
RECURSIVE FinalizeKeys(_, _, _, _, _)
FinalizeKeys(keys, values, initial, diff, batch) ==
    IF keys = <<>>
    THEN [stateDiff |-> diff, batch |-> batch]
    ELSE LET key == Head(keys)
             dbKey == concatKeys(DB_KEY_CONSENSUS_STATE, key)
             updatedValue == values[key.bytes]
             put == Append(batch, [key |-> dbKey, value |-> updatedValue])
             listed ==
                 IF key = FinalizedHeightKeyBuffer
                 THEN diff
                 ELSE IF /\ Has(initial, key.bytes)
                         /\ initial[key.bytes] # updatedValue
                 THEN [diff EXCEPT !.updated =
                          Append(@, [key |-> dbKey,
                                     value |-> initial[key.bytes]])]
                 ELSE IF ~Has(initial, key.bytes)
                 THEN [diff EXCEPT !.created = Append(@, dbKey)]
                 ELSE diff
         IN  FinalizeKeys(Tail(keys), values, initial, listed, put)

\* ConsensusStateStore.finalize(batch).
KeyedFinalize ==
    /\ css_pc = "open"
    /\ LET done == FinalizeKeys(css_updatedKeys, css_data, css_initialValue,
                                EmptyStateDiff, <<>>)
       IN  /\ css_stateDiff' = done.stateDiff
           /\ css_batch' = done.batch
    /\ css_pc' = "finalized"
    /\ UNCHANGED <<css_db, css_data, css_initialValue, css_updatedKeys,
                   consensusVars, storeVars, poolVars, besideKeyed>>

\* The puts of a batch applied to the database, in order.
RECURSIVE WriteBatch(_, _)
WriteBatch(db, batch) ==
    IF batch = <<>>
    THEN db
    ELSE WriteBatch(MapSet(db, Head(batch).key[2], Head(batch).value),
                    Tail(batch))

\* The batch of the block is written.
KeyedWrite ==
    /\ css_pc = "finalized"
    /\ css_db' = WriteBatch(css_db, css_batch)
    /\ css_pc' = "written"
    /\ UNCHANGED <<css_data, css_initialValue, css_updatedKeys, css_stateDiff,
                   css_batch, consensusVars, storeVars, poolVars, besideKeyed>>

\* The reverse diff applied to the database: created keys leave, updated
\* keys get the value of the diff.
RevertDiff(db, diff) ==
    LET created == { k[2] : k \in SeqOf(diff.created) }
        updated == SeqOf(diff.updated)
    IN  [b \in DOMAIN db \ created |->
            IF \E u \in updated : u.key[2] = b
            THEN (CHOOSE u \in updated : u.key[2] = b).value
            ELSE db[b]]

\* The block is deleted again.
KeyedRevert ==
    /\ css_pc = "written"
    /\ css_db' = RevertDiff(css_db, css_stateDiff)
    /\ css_pc' = "reverted"
    /\ UNCHANGED <<css_data, css_initialValue, css_updatedKeys, css_stateDiff,
                   css_batch, consensusVars, storeVars, poolVars, besideKeyed>>

\* The next block executes on a new store.
KeyedBegin ==
    /\ css_pc \in {"written", "reverted"}
    /\ Has(css_db, CONSENSUS_STATE_FINALIZED_HEIGHT_KEY)
    /\ css_data' = EmptyMap
    /\ css_initialValue' = EmptyMap
    /\ css_updatedKeys' = <<>>
    /\ css_stateDiff' = EmptyStateDiff
    /\ css_batch' = <<>>
    /\ css_pc' = "open"
    /\ UNCHANGED <<css_db, consensusVars, storeVars, poolVars, besideKeyed>>

KeyedNext ==
    \/ \E key \in KeyBuffers : KeyedGet(key)
    \/ \E key \in KeyBuffers, value \in StateValues : KeyedSet(key, value)
    \/ KeyedFinalize
    \/ KeyedWrite
    \/ KeyedRevert
    \/ KeyedBegin

KeyedSpec == KeyedInit /\ [][KeyedNext]_vars

\* --------------------------------------------------------- bus: operations
\* An array without repeated names, as a channel lists its events, and the
\* keys of an actions object in their order.
NameArrays(names) ==
    UNION { { q \in [1..n -> names] : \A i, j \in 1..n : q[i] = q[j] => i = j }
            : n \in 0..Cardinality(names) }
ChannelTypes == {"inMemory", "child"}

BusInit ==
    /\ ConsensusInit
    /\ StoreFresh(GenesisState)
    /\ PoolFresh(NoAggregates, 0)
    /\ KeyedFresh(GenesisState)
    /\ MsFresh([type |-> MULTI, hasSignatures |-> FALSE,
                signatures |-> <<>>, ready |-> FALSE])
    /\ \E ipc \in BOOLEAN : BusFresh(ipc)

\* names.forEach of registerChannel: each name is registered in turn, and
\* the first one that is registered already throws and ends the loop.
RECURSIVE RegisterNames(_, _, _)
RegisterNames(registered, moduleAlias, names) ==
    IF names = <<>>
    THEN [registered |-> registered, error |-> "none"]
    ELSE IF FullName(moduleAlias, Head(names)) \in registered
    THEN [registered |-> registered, error |-> "already registered"]
    ELSE RegisterNames(registered \cup {FullName(moduleAlias, Head(names))},
                       moduleAlias, Tail(names))

\* Bus.registerChannel(moduleAlias, events, actions, options).
RegisterChannel(moduleAlias, events, actions, type) ==
    LET evs == RegisterNames(busEvents, moduleAlias, events)
        acts == IF evs.error = "none"
                THEN RegisterNames(busActions, moduleAlias, actions)
                ELSE [registered |-> busActions, error |-> evs.error]
    IN  /\ busEvents' = evs.registered
        /\ busActions' = acts.registered
        /\ busChannels' =
               IF acts.error = "none"
               THEN MapSet(busChannels, moduleAlias,
                           [events |-> events, actions |-> actions,
                            type |-> type, rpcClient |-> type = "child"])
               ELSE busChannels
        /\ busError' = acts.error
        /\ UNCHANGED <<busIpc, busListeners, consensusVars, storeVars,
                       poolVars, besideBus>>

getEvents == busEvents
getActions == busActions

\* Bus.subscribe(eventName, cb): on() of the emitter, and on() of the sub
\* socket when IPC is enabled.
BusSubscribe(eventName, cb) ==
    /\ busListeners[cb] = NotListening
    /\ busListeners' = [busListeners EXCEPT ![cb] =
           [kind |-> "subscribe", eventName |-> eventName, emitter |-> TRUE,
            socket |-> busIpc, invoked |-> 0, published |-> 0]]
    /\ UNCHANGED <<busEvents, busActions, busChannels, busIpc, busError,
                   consensusVars, storeVars, poolVars, besideBus>>

\* Bus.once(eventName, cb): once() of the emitter, and on() of the sub
\* socket when IPC is enabled.
BusOnce(eventName, cb) ==
    /\ busListeners[cb] = NotListening
    /\ busListeners' = [busListeners EXCEPT ![cb] =
           [kind |-> "once", eventName |-> eventName, emitter |-> TRUE,
            socket |-> busIpc, invoked |-> 0, published |-> 0]]
    /\ UNCHANGED <<busEvents, busActions, busChannels, busIpc, busError,
                   consensusVars, storeVars, poolVars, besideBus>>

Hears(cb, eventName) ==
    /\ busListeners[cb].kind # "none"
    /\ busListeners[cb].eventName = eventName
CanCount(eventName) ==
    \A cb \in Listeners :
        Hears(cb, eventName) => busListeners[cb].published < MaxPublishes

\* Bus.publish(eventName, eventValue) of a registered event: emit() calls
\* the listeners of the emitter and drops those added with once(); with IPC
\* the event also leaves through the pub socket.
BusPublish(eventName) ==
    /\ eventName \in getEvents
    /\ CanCount(eventName)
    /\ busListeners' = [cb \in Listeners |->
           LET l == busListeners[cb]
           IN  IF ~Hears(cb, eventName)
               THEN l
               ELSE [l EXCEPT
                       !.published = @ + 1,
                       !.invoked = IF l.emitter THEN @ + 1 ELSE @,
                       !.emitter = l.emitter /\ l.kind # "once"]]
    /\ UNCHANGED <<busEvents, busActions, busChannels, busIpc, busError,
                   consensusVars, storeVars, poolVars, besideBus>>

\* A channel of another process publishes eventName: the event arrives on
\* the sub socket, which calls the listeners added to it.
BusSocketEvent(eventName) ==
    /\ busIpc
    /\ CanCount(eventName)
    /\ busListeners' = [cb \in Listeners |->
           LET l == busListeners[cb]
           IN  IF ~Hears(cb, eventName)
               THEN l
               ELSE [l EXCEPT
                       !.published = @ + 1,
                       !.invoked = IF l.socket THEN @ + 1 ELSE @]]
    /\ UNCHANGED <<busEvents, busActions, busChannels, busIpc, busError,
                   consensusVars, storeVars, poolVars, besideBus>>

BusNext ==
    \/ \E moduleAlias \in ModuleAliases, events \in NameArrays(EventNames),
          actions \in NameArrays(ActionNames), type \in ChannelTypes :
          RegisterChannel(moduleAlias, events, actions, type)
    \/ \E eventName \in EventKeys, cb \in Listeners :
          BusSubscribe(eventName, cb)
    \/ \E eventName \in EventKeys, cb \in Listeners : BusOnce(eventName, cb)
    \/ \E eventName \in EventKeys : BusPublish(eventName)
    \/ \E eventName \in EventKeys : BusSocketEvent(eventName)

BusSpec == BusInit /\ [][BusNext]_vars

\* ------------------------------------------ multisignatures: operations
\* The signature objects a peer or the API may hand to processSignature.
SignatureObjects ==
    [publicKey : PublicKeys \cup {NoPublicKey}, signature : PublicKeys,
     transactionId : {PooledId, UnknownId}]

\* The transactions the multisignature pool may hold: without signatures,
\* or received with the signature of a member.
PooledTransactions ==
    { [type |-> type, hasSignatures |-> has, signatures |-> sigs,
       ready |-> Ready(type, sigs)] :
        type \in {MULTI, SEND}, has \in BOOLEAN,
        sigs \in {<<>>} \cup { <<m>> : m \in Members } }

MsInit ==
    /\ ConsensusInit
    /\ StoreFresh(GenesisState)
    /\ PoolFresh(NoAggregates, 0)
    /\ KeyedFresh(GenesisState)
    /\ BusFresh(FALSE)
    /\ \E transaction \in { t \in PooledTransactions :
                              t.hasSignatures \/ t.signatures = <<>> } :
           MsFresh(transaction)

\* library.logic.transaction.verifySignature(transaction, publicKey,
\* signature): the signature is the one that key made for the transaction.
verifySignature(publicKey, signature) ==
    publicKey \in Members /\ signature = publicKey

\* __private.isValidSignature(signature, members, transaction).
isValidSignature(signature, members) ==
    IF signature.publicKey # NoPublicKey
    THEN /\ signature.publicKey \in members
         /\ verifySignature(signature.publicKey, signature.signature)
    ELSE \E member \in members : verifySignature(member, signature.signature)

includes(signatures, signature) ==
    \E i \in 1..Len(signatures) : signatures[i] = signature

\* The test processSignature makes before it verifies the signature: the
\* call is rejected when the signature is not found in the list.
RejectedAsExisting(signatures, signature) == ~includes(signatures, signature)

\* processSignatureForMultisignatureCreation and
\* processSignatureFromMultisignatureAccount: the signature is verified
\* against the members, pushed, and ready is set anew.
PushSignature(transaction, signature, senderFound) ==
    IF transaction.type # MULTI /\ ~senderFound
    THEN [transaction |-> transaction, error |-> "account not found"]
    ELSE IF ~isValidSignature(signature, Members)
    THEN [transaction |-> transaction, error |-> "verification failed"]
    ELSE LET signatures == Append(transaction.signatures, signature.signature)
         IN  [transaction |->
                  [transaction EXCEPT
                     !.signatures = signatures,
                     !.ready = Ready(transaction.type, signatures)],
              error |-> "none"]

\* Multisignatures.processSignature(signature, cb), one turn of
\* balancesSequence.
ProcessSignature(signature, senderFound) ==
    /\ Len(msTransaction.signatures) < MaxSignatures
    /\ IF signature.transactionId # PooledId
       THEN /\ msTransaction' = msTransaction
            /\ msCall' = [signature |-> signature,
                          error |-> "transaction not found"]
       ELSE LET transaction == [msTransaction EXCEPT !.hasSignatures = TRUE]
            IN  IF RejectedAsExisting(transaction.signatures,
                                      signature.signature)
                THEN /\ msTransaction' = transaction
                     /\ msCall' = [signature |-> signature,
                                   error |-> "signature already exists"]
                ELSE LET pushed == PushSignature(transaction, signature,
                                                 senderFound)
                     IN  /\ msTransaction' = pushed.transaction
                         /\ msCall' = [signature |-> signature,
                                       error |-> pushed.error]
    /\ UNCHANGED <<consensusVars, storeVars, poolVars, besideMs>>

\* processSignature without a signature.
ProcessNoSignature ==
    /\ msCall' = [NoMsCall EXCEPT !.error = "signature not provided"]
    /\ UNCHANGED <<msTransaction, consensusVars, storeVars, poolVars,
                   besideMs>>

MsNext ==
    \/ \E signature \in SignatureObjects, senderFound \in BOOLEAN :
          ProcessSignature(signature, senderFound)
    \/ ProcessNoSignature

MsSpec == MsInit /\ [][MsNext]_vars

\* ------------------------------------------------- commit pool: operations
\* The id of the header the chain holds at height h.
HeaderID(h) == h
\* An id no header of the chain has.
UnknownID == 0

\* A certificate signature is named by the BLS key that produced it over the
\* certificate of the header at the commit's height.
Commits ==
    {c \in [height : CommitHeights,
            validatorAddress : Validators \cup {Outsider},
            certificateSignature : Validators \cup {Outsider},
            blockID : {UnknownID} \cup CommitHeights] :
        c.blockID \in {UnknownID, HeaderID(c.height)}}

CommitKey(c) == <<c.height, c.validatorAddress, c.certificateSignature>>

\* The commits a validator creates itself for a header of the chain.
CreateSingleCommit(v, h) ==
    [height |-> h, validatorAddress |-> v, certificateSignature |-> v,
     blockID |-> HeaderID(h)]

SeqHas(list, c) == \E i \in 1..Len(list) : CommitKey(list[i]) = CommitKey(c)

\* Whether the pool map holds a commit with the key of c.
PoolHas(pool, c) == SeqHas(pool[c.height], c)

StoredNonGossipedOnly(c) == PoolHas(nonGossipedCommits, c)

\* Whether either pool holds a commit with the key of c.
Stored(c) == PoolHas(nonGossipedCommits, c) \/ PoolHas(gossipedCommits, c)

\* addCommit(commit, height): the non-gossiped pool after the call.
AddCommit(c) ==
    IF Stored(c)
    THEN nonGossipedCommits
    ELSE [nonGossipedCommits EXCEPT ![c.height] = Append(@, c)]

\* _getMaxRemovalHeight: aggregateCommit.height of the finalized header.
GetMaxRemovalHeight == aggregateCommitHeight[poolFinalizedHeight]

\* The BFT parameters: weights and threshold of the validator set.
BftWeight(v) == v
CertificateThreshold == NumValidators
IsKnownAddress(v, h) == v \in Validators \cup {Outsider}
IsActiveValidator(v, h) == v \in Validators
ExistBFTParameters(h) == h = 0 \/ (h = heightNextBFTParameters /\ h > 0)

\* verifyWeightedAggSig for one signer: the key that signed is the
\* validator's.
VerifySignature(c) == c.certificateSignature = c.validatorAddress

InCommitRange(h) ==
    /\ h >= poolPrecommitted - CommitRangeStored + 1
    /\ h <= poolPrecommitted

AtOrAboveRemovalHeight(h) == h >= GetMaxRemovalHeight

\* The first check of validateCommit.
AboveRemovalHeight(h) == h > GetMaxRemovalHeight

\* validateCommit(commit): "true", "false" or "error" when it throws.
ValidateCommit(c) ==
    IF ~AboveRemovalHeight(c.height) THEN "false"
    ELSE IF c.blockID # HeaderID(c.height) THEN "false"
    ELSE IF Stored(c) THEN "false"
    ELSE IF ~(InCommitRange(c.height) \/ ExistBFTParameters(c.height + 1))
         THEN "false"
    ELSE IF ~IsActiveValidator(c.validatorAddress, c.height) THEN "error"
    ELSE IF ~VerifySignature(c) THEN "error"
    ELSE "true"

\* getCommitsByHeight: the commits of both pools at height h.
GetCommitsByHeight(non, gos, h) ==
    (IF h \in DOMAIN non THEN non[h] ELSE <<>>)
        \o (IF h \in DOMAIN gos THEN gos[h] ELSE <<>>)

RECURSIVE SumWeight(_)
SumWeight(list) ==
    IF list = <<>> THEN 0
    ELSE (IF list[1].validatorAddress \in Validators
          THEN BftWeight(list[1].validatorAddress) ELSE 0)
         + SumWeight(Tail(list))

\* _aggregateSingleCommits: bits of the signers, the aggregated signatures.
AggregateSingleCommits(list) ==
    [height |-> list[1].height,
     aggregationBits |-> {list[i].validatorAddress : i \in 1..Len(list)},
     certificateSignature |->
         {list[i].certificateSignature : i \in 1..Len(list)}]

\* getNextHeightBFTParameters(h): the next change at or after h, 0 if none.
GetNextHeightBFTParameters(h) ==
    IF heightNextBFTParameters >= h THEN heightNextBFTParameters ELSE 0

Min(a, b) == IF a <= b THEN a ELSE b

TopHeightPrecommitted == poolPrecommitted

\* The greatest height selectAggregateCommit looks at.
TopHeight ==
    LET next == GetNextHeightBFTParameters(maxHeightCertified + 1)
    IN  IF next = 0 THEN poolPrecommitted
        ELSE Min(next - 1, poolPrecommitted)

\* The scan of selectAggregateCommit from height h downwards.
RECURSIVE ScanCommits(_, _, _)
ScanCommits(non, gos, h) ==
    IF h <= maxHeightCertified THEN EmptyAggregate(maxHeightCertified)
    ELSE IF SumWeight(GetCommitsByHeight(non, gos, h)) >= CertificateThreshold
         THEN AggregateSingleCommits(GetCommitsByHeight(non, gos, h))
    ELSE ScanCommits(non, gos, h - 1)

SelectAggregateCommit(non, gos) == ScanCommits(non, gos, TopHeight)

\* The aggregate commits a header can carry: the validators the bits select
\* and the keys whose signatures were aggregated, none for an empty buffer.
AggregateCommits ==
    [height : 1..MaxChainHeight,
     aggregationBits : SUBSET Validators,
     certificateSignature : SUBSET Validators]

RECURSIVE BitsWeight(_)
BitsWeight(bits) ==
    IF bits = {} THEN 0
    ELSE LET v == CHOOSE x \in bits : TRUE
         IN  BftWeight(v) + BitsWeight(bits \ {v})

\* verifyWeightedAggSig: the signature aggregates exactly the signatures of
\* the keys the bits select, and their weight reaches the threshold.
VerifyWeightedAggSig(a) ==
    /\ a.certificateSignature = a.aggregationBits
    /\ BitsWeight(a.aggregationBits) >= CertificateThreshold

CrossesNextParametersOffByOne(h) ==
    LET next == GetNextHeightBFTParameters(maxHeightCertified + 1)
    IN  next # 0 /\ h > next

\* The height lies at or beyond the next change of the BFT parameters.
CrossesNextParameters(h) ==
    LET next == GetNextHeightBFTParameters(maxHeightCertified + 1)
    IN  next # 0 /\ h > next - 1

\* verifyAggregateCommit(aggregateCommit)
VerifyAggregateCommit(a) ==
    IF a.certificateSignature = {} \/ a.aggregationBits = {} THEN FALSE
    ELSE IF a.height <= maxHeightCertified THEN FALSE
    ELSE IF a.height > poolPrecommitted THEN FALSE
    ELSE IF CrossesNextParameters(a.height) THEN FALSE
    ELSE VerifyWeightedAggSig(a)

\* The commits job() drops.
Evicted(h) == h < GetMaxRemovalHeight

\* No answer of the pool is on its way to a caller.
Answered == validated = NoValidation /\ aggregateVerified = NoVerification

\* The network handler of a single commit: validateCommit, then addCommit
\* when it answers true.
PoolReceive ==
    /\ Answered
    /\ \E c \in Commits :
        /\ validated' = [commit |-> c, result |-> ValidateCommit(c)]
        /\ nonGossipedCommits' =
               IF ValidateCommit(c) = "true" THEN AddCommit(c)
               ELSE nonGossipedCommits
    /\ UNCHANGED <<gossipedCommits, poolFinalizedHeight, aggregateCommitHeight,
                   maxHeightCertified, poolPrecommitted,
                   heightNextBFTParameters, selected, aggregateVerified,
                   consensusVars, storeVars, extraVars>>

\* The node's own validator certifies a header above the removal height:
\* createSingleCommit, then addCommit.
PoolCreate ==
    /\ Answered
    /\ \E v \in Validators, h \in CommitHeights :
        /\ AboveRemovalHeight(h)
        /\ h <= poolPrecommitted
        /\ nonGossipedCommits' = AddCommit(CreateSingleCommit(v, h))
    /\ UNCHANGED <<gossipedCommits, poolFinalizedHeight, aggregateCommitHeight,
                   maxHeightCertified, poolPrecommitted,
                   heightNextBFTParameters, selected, aggregateVerified,
                   consensusVars, storeVars, extraVars>>
    /\ validated' = NoValidation

\* The answer of validateCommit or verifyAggregateCommit reaches its caller.
PoolAnswer ==
    /\ ~Answered
    /\ validated' = NoValidation
    /\ aggregateVerified' = NoVerification
    /\ UNCHANGED <<nonGossipedCommits, gossipedCommits, poolFinalizedHeight,
                   aggregateCommitHeight, maxHeightCertified, poolPrecommitted,
                   heightNextBFTParameters, selected,
                   consensusVars, storeVars, extraVars>>

\* Block verification hands the aggregate commit of a received header to
\* verifyAggregateCommit.
PoolVerify ==
    /\ Answered
    /\ \E a \in AggregateCommits :
           aggregateVerified' =
               [aggregate |-> a,
                result |-> IF VerifyAggregateCommit(a) THEN "true"
                           ELSE "false"]
    /\ UNCHANGED <<nonGossipedCommits, gossipedCommits, poolFinalizedHeight,
                   aggregateCommitHeight, maxHeightCertified, poolPrecommitted,
                   heightNextBFTParameters, validated, selected,
                   consensusVars, storeVars, extraVars>>

\* job(): drop, gossip, select.
PoolJob ==
    LET keep(list) == SelectSeq(list, LAMBDA c : ~Evicted(c.height))
        non == [h \in CommitHeights |-> keep(nonGossipedCommits[h])]
        gos == [h \in CommitHeights |-> keep(gossipedCommits[h])]
        moved == [h \in CommitHeights |-> gos[h] \o non[h]]
    IN  /\ Answered
        /\ nonGossipedCommits' = EmptyPool
        /\ gossipedCommits' = moved
        /\ selected' = SelectAggregateCommit(EmptyPool, moved)
        /\ UNCHANGED <<poolFinalizedHeight, aggregateCommitHeight,
                       maxHeightCertified, poolPrecommitted,
                       heightNextBFTParameters, aggregateVerified,
                       consensusVars, storeVars, extraVars>>
        /\ validated' = NoValidation

\* Block processing moves the BFT heights and the finalized height on.
PoolAdvance ==
    /\ Answered
    /\ \E pre \in poolPrecommitted..MaxChainHeight :
       \E cert \in maxHeightCertified..pre :
       \E fin \in poolFinalizedHeight..pre :
        /\ <<pre, cert, fin>> #
               <<poolPrecommitted, maxHeightCertified, poolFinalizedHeight>>
        /\ poolPrecommitted' = pre
        /\ maxHeightCertified' = cert
        /\ poolFinalizedHeight' = fin
    /\ UNCHANGED <<nonGossipedCommits, gossipedCommits, aggregateCommitHeight,
                   heightNextBFTParameters, selected, aggregateVerified,
                   consensusVars, storeVars, extraVars>>
    /\ validated' = NoValidation

\* The aggregate commit heights the headers of a chain can carry.
AggregateHeights ==
    {[h \in 0..MaxChainHeight |-> IF h > lag THEN h - lag ELSE 0] :
        lag \in 1..MaxAggregateLag}

PoolInit ==
    /\ ConsensusInit
    /\ StoreFresh(GenesisState)
    /\ \E agg \in AggregateHeights, next \in 0..MaxChainHeight :
           PoolFresh(agg, next)
    /\ ExtraFresh

PoolNext ==
    \/ PoolReceive
    \/ PoolAnswer
    \/ PoolVerify
    \/ PoolCreate
    \/ PoolJob
    \/ PoolAdvance

PoolSpec == PoolInit /\ [][PoolNext]_vars

\* --------------------------------------------------------------- endpoints
\* The bytes of a block on the wire: its header fields in the order of the
\* schema, the bookkeeping field receivedAt left out.
EncodeBlock(b) ==
    <<b.version, b.timestamp, b.height>> \o b.previousBlockID
        \o <<b.generatorAddress, b.maxHeightPrevoted>>

\* NetworkEndpoint.handleRPCGetLastBlock: the encoded tip.
handleRPCGetLastBlock == EncodeBlock(lastBlock)

\* What a function that ends without a return statement answers.
Undefined == <<>>

\* The handler init registers for getLastBlock: a function body that calls
\* the endpoint and returns nothing.
GetLastBlockHandler == LET result == handleRPCGetLastBlock IN Undefined

\* -------------------------------------------------------------- properties
\* A task is inside the critical section from the moment the mutex is handed
\* to it until its worker ends; the synchronization that asked for
\* deleteLastBlock is still inside while it waits.
InCriticalSection(t) ==
    pc[t] \in {"classify", "verify", "tb_verify", "tb_delete", "ev_verify",
               "ev_exec", "ev_save", "sync", "delete", "wait_delete"}

Persisted(h) == blocks[h] # NoBlock

\* The BLOCK_NEW and BLOCK_DELETE events of a call, in the order emitted.
IsChainEvent(e) == e.type \in {BLOCK_NEW, BLOCK_DELETE}
ChainEvents(t) == SelectSeq(emitted[t], IsChainEvent)

IsNew(e) == e.type = BLOCK_NEW
IsDelete(e) == e.type = BLOCK_DELETE
IsFork(e) == e.type = FORK_DETECTED

\* C1: at most one caller is inside the coordinator's critical section at any
\* moment, and whoever is inside holds the mutex: no two block saves or
\* removals overlap, whatever the interleaving of execute, onBlockReceive,
\* stop and the calls the synchronizer makes through the BlockExecutor.
C1_MutualExclusion ==
    /\ Cardinality({t \in Tasks : InCriticalSection(t)}) <= 1
    /\ \A t \in Tasks : InCriticalSection(t) => mutexLocked

\* One call is about to save a block while a forged block waits for the mutex.
C1_Witness ==
    \E t, u \in Tasks :
        /\ pc[t] = "ev_save"
        /\ pc[u] = "wait_forge"
        /\ mutexQueue = <<u>>

\* C2: the finalized height never decreases, in any step of any operation
\* (extend, tie-break swap and revert, forged block, synchronization).
C2_FinalizedHeightNeverDecreases ==
    [][finalizedHeight' >= finalizedHeight]_vars

\* A tie break has deleted a tip and saved the received block above a
\* finalized height that is not 0.
C2_Witness ==
    \E t \in Tasks :
        /\ pc[t] = "done"
        /\ forkStatus[t] = ForkStatusTieBreak
        /\ Len(ChainEvents(t)) = 2
        /\ finalizedHeight > 0

\* C3: no block at or below the finalized height is ever removed and no
\* BLOCK_DELETE is emitted for one; a tie break that reaches _deleteBlock with
\* the tip at or below the finalized height ends with an error, changes
\* nothing of the chain and emits nothing.
C3_NoFinalizedBlockDeleted ==
    [][/\ \A h \in 1..MaxHeight :
             (Persisted(h) /\ blocks'[h] = NoBlock) => h > finalizedHeight
       /\ \A t \in Tasks :
             (Len(emitted'[t]) = Len(emitted[t]) + 1
                /\ IsDelete(emitted'[t][Len(emitted'[t])]))
             => emitted'[t][Len(emitted'[t])].id[1] > finalizedHeight
       /\ \A t \in Tasks :
             (/\ pc[t] = "tb_verify"
              /\ pc'[t] # "tb_verify"
              /\ error'[t] # "ApplyPenaltyError"
              /\ lastBlock.height <= finalizedHeight)
             => /\ error'[t] = "Error"
                /\ pc'[t] = "done"
                /\ chainVars' = chainVars
                /\ emitted'[t] = emitted[t]]_vars

\* A tie break was refused because the tip is exactly at the finalized height.
C3_Witness ==
    \E t \in Tasks :
        /\ pc[t] = "done"
        /\ forkStatus[t] = ForkStatusTieBreak
        /\ error[t] = "Error"
        /\ previousLastBlock[t].height = finalizedHeight
        /\ lastBlock = previousLastBlock[t]
        /\ ChainEvents(t) = <<>>

\* C4: the persisted chain is linked: every block from height 1 up to the
\* tip names the id of the persisted block one height below it.
C4_ChainLinked ==
    \A h \in 1..MaxHeight :
        (h <= lastBlock.height /\ Persisted(h))
        => blocks[h].previousBlockID = BlockID(blocks[h - 1])

\* C5: finalizedHeight <= maxHeightPrecommitted <= tip.height in every state.
C5_HeightsOrdered ==
    /\ finalizedHeight <= maxHeightPrecommitted
    /\ maxHeightPrecommitted <= lastBlock.height

\* C6: a received block of the current version that extends the tip the call
\* read, and whose call ends without error, is the tip when the call ends,
\* with exactly one BLOCK_NEW, for it, no BLOCK_DELETE and no penalty.
C6_Extend ==
    \A t \in Tasks :
        (/\ pc[t] = "done"
         /\ op[t] = "onBlockReceive"
         /\ forkStatus[t] # "none"
         /\ IsValidBlock(block[t], previousLastBlock[t])
         /\ block[t].version = BLOCK_VERSION
         /\ error[t] = "none")
        => /\ lastBlock = block[t]
           /\ ChainEvents(t) = <<Event(BLOCK_NEW, block[t])>>
           /\ penalty[t] = 0

\* C7: forkChoice gives one of the six statuses, and VALID_BLOCK to every
\* header one height above the tip that names the tip as its parent, whatever
\* its maxHeightPrevoted; such a block is never handed to the synchronizer.
C7_ExtendingIsValid ==
    \A t \in Tasks :
        forkStatus[t] # "none"
        => /\ forkStatus[t] \in forkStatusList
           /\ IsValidBlock(block[t], previousLastBlock[t])
              => (forkStatus[t] = ForkStatusValid /\ pc[t] # "sync")

\* C8: a received block with the id of the tip is classified IDENTICAL_BLOCK
\* and its call ends at once without error: chain, finalized height and BFT
\* heights unchanged, no event, no penalty.
C8_IdenticalIsNoOp ==
    [][\A t \in Tasks :
          (/\ pc[t] = "classify"
           /\ pc'[t] # "classify"
           /\ BlockID(block'[t]) = BlockID(lastBlock))
          => /\ forkStatus'[t] = ForkStatusIdentical
             /\ pc'[t] = "done"
             /\ error'[t] = "none"
             /\ chainVars' = chainVars
             /\ emitted'[t] = <<>>
             /\ penalty'[t] = 0]_vars

\* The tip was received a second time and the call has ended.
C8_Witness ==
    \E t \in Tasks :
        /\ pc[t] = "done"
        /\ forkStatus[t] = ForkStatusIdentical
        /\ lastBlock.height > 0
        /\ BlockID(block[t]) = BlockID(lastBlock)

\* C9: a received block classified DOUBLE_FORGING or DISCARD ends its call
\* at once without error: the chain and the finalized height are unchanged,
\* the block is not persisted and no penalty is applied; for DOUBLE_FORGING
\* the one event emitted is FORK_DETECTED for the received block.
C9_DoubleForgingDiscardFrame ==
    [][\A t \in Tasks :
          (/\ pc[t] = "classify"
           /\ forkStatus'[t] \in {ForkStatusDoubleForging, ForkStatusDiscard})
          => /\ pc'[t] = "done"
             /\ error'[t] = "none"
             /\ chainVars' = chainVars
             /\ \A h \in Heights : BlockID(blocks'[h]) # BlockID(block'[t])
             /\ penalty'[t] = 0
             /\ Len(SelectSeq(emitted'[t], IsNew)) = 0
             /\ forkStatus'[t] = ForkStatusDoubleForging
                => emitted'[t] = <<Event(FORK_DETECTED, block'[t])>>]_vars

\* A block of the tip's generator at the tip's height was received.
C9_Witness ==
    \E t \in Tasks :
        /\ pc[t] = "done"
        /\ forkStatus[t] = ForkStatusDoubleForging
        /\ block[t].generatorAddress = lastBlock.generatorAddress
        /\ BlockID(block[t]) # BlockID(lastBlock)
        /\ Len(SelectSeq(emitted[t], IsFork)) = 1

\* C10: when the call of a block B classified TIE_BREAK against tip T ends
\* with B aggregateVerified and executed, its chain events are BLOCK_DELETE(T) then
\* BLOCK_NEW(B), the tip is B at the height of T, and T is not persisted.
C10_TieBreakSwap ==
    \A t \in Tasks :
        (/\ pc[t] = "done"
         /\ forkStatus[t] = ForkStatusTieBreak
         /\ error[t] = "none"
         /\ caught[t] = "none")
        => /\ ChainEvents(t) = <<Event(BLOCK_DELETE, previousLastBlock[t]),
                                 Event(BLOCK_NEW, block[t])>>
           /\ lastBlock = block[t]
           /\ lastBlock.height = previousLastBlock[t].height
           /\ \A h \in Heights :
                 BlockID(blocks[h]) # BlockID(previousLastBlock[t])

\* A tie break has replaced the tip.
C10_Witness ==
    \E t \in Tasks :
        /\ pc[t] = "done"
        /\ forkStatus[t] = ForkStatusTieBreak
        /\ error[t] = "none"
        /\ caught[t] = "none"
        /\ lastBlock = block[t]
        /\ BlockID(block[t]) # BlockID(previousLastBlock[t])

IsBroadcast(e) == e.type = BLOCK_BROADCAST

C12_TieBreakErrorSurfaced ==
    \A t \in Tasks :
        (/\ pc[t] = "done"
         /\ forkStatus[t] = ForkStatusTieBreak
         /\ caught[t] # "none")
        => error[t] = caught[t]


\* A step in which task t calls onBlockReceive.
Receives(t) == pc[t] = "idle" /\ op'[t] = "onBlockReceive"

\* C13: while the synchronizer is running, onBlockReceive drops whatever it is
\* handed, malformed or not: the call is over at once with no error, without
\* queueing on the mutex, without classifying, with no event and no penalty,
\* and the chain is as before.
C13_SyncingGate ==
    [][\A t \in Tasks :
          (Receives(t) /\ isActive)
          => /\ pc'[t] = "done"
             /\ error'[t] = "none"
             /\ penalty' = penalty
             /\ emitted'[t] = <<>>
             /\ forkStatus'[t] = forkStatus[t]
             /\ mutexLocked' = mutexLocked
             /\ mutexQueue' = mutexQueue
             /\ chainVars' = chainVars]_vars

C13_Witness ==
    \E t \in Tasks :
        /\ pc[t] = "done"
        /\ op[t] = "onBlockReceive"
        /\ data[t] = "badEnvelope"
        /\ isActive
        /\ penalty[t] = 0
        /\ error[t] = "none"

\* C14: when the node is not syncing, data that is no buffer, an envelope that
\* does not decode or block bytes that do not decode cost the peer exactly one
\* penalty of 100, leave the chain as it is with no block event, and end the
\* call with an error raised to the caller.
C14_MalformedPenalisedAndThrown ==
    [][\A t \in Tasks :
          (Receives(t) /\ ~isActive /\ data'[t] \in Malformed)
          => /\ pc'[t] = "done"
             /\ penalty'[t] = penalty[t] + PENALTY
             /\ emitted'[t] = <<>>
             /\ chainVars' = chainVars
             /\ error'[t] # "none"]_vars

\* C15: a block received while the node is not syncing whose version is not
\* the current block version ends the call with an ApplyPenaltyError and a
\* penalty of 100 on the peer whatever status the fork choice gives it, and
\* the block is not persisted.
C15_WrongVersionPenalised ==
    \A t \in Tasks :
        (/\ pc[t] = "done"
         /\ op[t] = "onBlockReceive"
         /\ forkStatus[t] # "none"
         /\ block[t].version # BLOCK_VERSION)
        => /\ error[t] = "ApplyPenaltyError"
           /\ penalty[t] = PENALTY
           /\ \A h \in Heights : BlockID(blocks[h]) # BlockID(block[t])

\* A step in which task t, verifying a block classed VALID_BLOCK, does not go
\* on to execute it: the verification failed.
ValidBlockRejected(t) == pc[t] = "verify" /\ pc'[t] \notin {"verify", "ev_verify"}

\* C16: when the verification of a received block classed VALID_BLOCK fails,
\* the call ends with an ApplyPenaltyError, the peer is penalised by 100 once,
\* and the block is not executed, persisted or broadcast: no event of the
\* call, tip and chain as before.
C16_InvalidBlockRejected ==
    [][\A t \in Tasks :
          ValidBlockRejected(t)
          => /\ forkStatus[t] = ForkStatusValid
             /\ pc'[t] = "done"
             /\ error'[t] = "ApplyPenaltyError"
             /\ penalty[t] = 0
             /\ penalty'[t] = PENALTY
             /\ emitted'[t] = <<>>
             /\ chainVars' = chainVars
             /\ lastBlock' = previousLastBlock[t]]_vars

C16_Witness ==
    \E t \in Tasks :
        /\ pc[t] = "done"
        /\ forkStatus[t] = ForkStatusValid
        /\ block[t].version = BLOCK_VERSION
        /\ error[t] = "ApplyPenaltyError"
        /\ penalty[t] = PENALTY
        /\ lastBlock.height > 0

InExecuteValidated(t) == pc[t] \in {"ev_verify", "ev_exec", "ev_save"}

\* A step in which the saveBlock of task t resolves.
SavedBy(t) ==
    /\ pc[t] = "ev_save"
    /\ pc'[t] # "ev_save"
    /\ error'[t] = error[t]
    /\ caught'[t] = caught[t]
    /\ penalty'[t] = penalty[t]

\* A step in which the saveBlock of task t fails.
SaveFailedFor(t) == pc[t] = "ev_save" /\ pc'[t] # "ev_save" /\ ~SavedBy(t)

\* C17: _executeValidated changes the chain only by a save that succeeds: from
\* its start until then, and when the state-machine verification, the
\* execution with the BFT-heights query or the save fails, the tip, the
\* persisted blocks, the persisted state and finalizedHeight stay as they
\* were and no BLOCK_NEW is emitted.
C17_ExecuteValidatedAllOrNothing ==
    [][\A t \in Tasks :
          (InExecuteValidated(t) /\ ~SavedBy(t))
          => /\ chainVars' = chainVars
             /\ SelectSeq(emitted'[t], IsNew) = SelectSeq(emitted[t], IsNew)]_vars

\* A forged block whose save has failed: the call is over with the error and
\* the broadcast alone, and the block is not the tip.
C17_Witness ==
    \E t \in Tasks :
        /\ pc[t] = "done"
        /\ op[t] = "execute"
        /\ error[t] = "Error"
        /\ bftVotes[t] > 0
        /\ lastBlock # execBlock[t]
        /\ Len(emitted[t]) = 1
        /\ IsBroadcast(emitted[t][1])

\* A step in which task t calls execute.
Forges(t) == pc[t] = "idle" /\ op'[t] = "execute"

\* C18: once stop() has been called, a later call of execute or of
\* onBlockReceive sees the stop flag first and has no effect: the call
\* returns, no peer is penalised, no event is emitted and no block is saved
\* or deleted. (deleteLastBlock after stop leaves every variable as it is.)
C18_StoppedCallsAreNoOps ==
    [][\A t \in Tasks :
          (stopFlag /\ (Forges(t) \/ Receives(t)))
          => /\ pc'[t] = "done"
             /\ penalty' = penalty
             /\ emitted'[t] = <<>>
             /\ chainVars' = chainVars]_vars

\* stop() has been called and its acquire has resolved: stop() has returned.
StopReturned == stopFlag /\ \A t \in Tasks : pc[t] # "wait_stop"

\* C19: stop() returns only once no operation is inside the critical section
\* any more, and from then on no block is saved or deleted and no BLOCK_NEW or
\* BLOCK_DELETE is emitted, whatever is called.
C19_StopDrains ==
    /\ [](StopReturned => \A t \in Tasks : ~InCriticalSection(t))
    /\ [][StopReturned
          => /\ chainVars' = chainVars
             /\ \A t \in Tasks :
                   Len(SelectSeq(emitted'[t], IsChainEvent))
                       <= Len(ChainEvents(t))]_vars

\* stop() waited for a call that saved or deleted a block: the release of
\* that call is what lets stop() return.
C19_Witness ==
    \E t, u \in Tasks :
        /\ op[t] = "stop"
        /\ pc[t] = "done"
        /\ op[u] # "stop"
        /\ pc[u] = "done"
        /\ ChainEvents(u) # <<>>
        /\ StopReturned

IsPenalisedRestart(e) == e = "ApplyPenaltyAndRestartError"
IsRestart(e) == e \in {"ApplyPenaltyAndRestartError", "RestartError"}

\* A step in which the synchronization run of task t fails.
SyncRunFails(t) == Len(syncErrors'[t]) = Len(syncErrors[t]) + 1

\* C20: a synchronization run that fails with ApplyPenaltyAndRestartError
\* costs the peer one penalty of 100 and is run again for the same block; one
\* that fails with RestartError is run again at no cost; so the penalty of a
\* call that synchronizes is 100 times its ApplyPenaltyAndRestartError
\* failures; and nothing is run again once the stop flag is set.
C20_RestartTranslation ==
    /\ [](\A t \in Tasks :
            forkStatus[t] = ForkStatusDifferentChain
            => penalty[t] =
                   PENALTY * Len(SelectSeq(syncErrors[t], IsPenalisedRestart)))
    /\ [][\A t \in Tasks :
            SyncRunFails(t)
            => LET e == syncErrors'[t][Len(syncErrors'[t])]
               IN  /\ penalty'[t] =
                          penalty[t] + (IF IsPenalisedRestart(e) THEN PENALTY ELSE 0)
                   /\ IF IsRestart(e) /\ ~stopFlag
                      THEN /\ pc'[t] = "sync"
                           /\ isActive'
                           /\ block'[t] = block[t]
                           /\ error'[t] = "none"
                      ELSE pc'[t] = "done" /\ ~isActive']_vars

\* A call whose synchronization failed twice with
\* ApplyPenaltyAndRestartError: run again after the first, not after the
\* second, stop() having been called in between; the peer has lost 200.
C20_Witness ==
    \E t \in Tasks :
        /\ forkStatus[t] = ForkStatusDifferentChain
        /\ syncErrors[t] = <<"ApplyPenaltyAndRestartError",
                             "ApplyPenaltyAndRestartError">>
        /\ restarts[t] = 1
        /\ penalty[t] = PENALTY + PENALTY
        /\ stopFlag
        /\ pc[t] = "done"

\* The error of the synchronization run that fails in this step.
LastSyncError(t) == syncErrors'[t][Len(syncErrors'[t])]

\* C21: a synchronization run that fails with AbortError is not run again and
\* costs the peer nothing, onBlockReceive returns normally and the
\* synchronizer is idle; a run that fails with any other error that is no
\* restart ends the call with that error, without a re-run or a penalty, and
\* the synchronizer is idle as well.
C21_AbortTranslation ==
    [][\A t \in Tasks :
          (SyncRunFails(t) /\ ~IsRestart(LastSyncError(t)))
          => /\ pc'[t] = "done"
             /\ op[t] = "onBlockReceive"
             /\ error'[t] = (IF LastSyncError(t) = "AbortError"
                              THEN "none" ELSE LastSyncError(t))
             /\ penalty'[t] = penalty[t]
             /\ restarts'[t] = restarts[t]
             /\ ~isActive'
             /\ ~Syncing']_vars

\* onBlockReceive has returned normally from a synchronization that was
\* aborted, and the node is not syncing.
C21_Witness ==
    \E t \in Tasks :
        /\ pc[t] = "done"
        /\ op[t] = "onBlockReceive"
        /\ syncErrors[t] = <<"AbortError">>
        /\ error[t] = "none"
        /\ penalty[t] = 0
        /\ ~Syncing

\* A step in which the call of task t emits an event.
EmitsEvent(t) == Len(emitted'[t]) > Len(emitted[t])

\* C22: every block event (BLOCK_NEW, BLOCK_DELETE, BLOCK_BROADCAST,
\* FORK_DETECTED) is emitted by an operation that holds the mutex, on every
\* path, the blocks the synchronizer applies included; no other operation is
\* inside the critical section then, so the events of two operations do not
\* interleave.
C22_EventsUnderMutex ==
    [][\A t \in Tasks :
          EmitsEvent(t)
          => /\ mutexLocked
             /\ InCriticalSection(t)
             /\ \A u \in Tasks \ {t} : ~InCriticalSection(u)]_vars

\* A synchronization has applied a block of the peer (BLOCK_NEW) under the
\* mutex of the onBlockReceive that started it, while a forged block waits.
C22_Witness ==
    \E t, u \in Tasks :
        /\ pc[t] = "sync"
        /\ \E i \in 1..Len(emitted[t]) : IsNew(emitted[t][i])
        /\ mutexLocked
        /\ pc[u] = "wait_forge"

\* C23: applyNodeInfo follows every successful _executeValidated, reached
\* through onBlockReceive, through execute or through the synchronizer: once
\* an operation that saved a block has finished, the advertised height,
\* lastBlockID and blockVersion are those of the tip.
C23_NodeInfoFollowsTip ==
    \A t \in Tasks :
        (/\ pc[t] = "done"
         /\ \E i \in 1..Len(emitted[t]) : IsNew(emitted[t][i]))
        => nodeInfo = NodeInfoOf(lastBlock)

\* C24: the handler registered for the getLastBlock RPC answers with the
\* encoded bytes of the current tip, the result of the endpoint's
\* handleRPCGetLastBlock, whatever the tip is.
C24_GetLastBlockAnswersTip == GetLastBlockHandler = handleRPCGetLastBlock

\* The consensus state but for the finalized height.
Revertible(db) == MapDelete(db, CONSENSUS_STATE_FINALIZED_HEIGHT_KEY)

PooledAt(h) == GetCommitsByHeight(nonGossipedCommits, gossipedCommits, h)

NoDuplicateKeys ==
    \A h \in CommitHeights :
        \A i, j \in 1..Len(PooledAt(h)) :
            CommitKey(PooledAt(h)[i]) = CommitKey(PooledAt(h)[j]) => i = j

\* C26: every commit key occurs at most once in the two pools together;
\* addCommit changes nothing when the key is stored in either pool, and else
\* appends the commit to the non-gossiped list of its height: a non-gossiped
\* list only ever grows by one commit whose key was stored in neither pool.
C26_SetAdd ==
    /\ []NoDuplicateKeys
    /\ [][\A h \in CommitHeights :
            Len(nonGossipedCommits'[h]) > Len(nonGossipedCommits[h]) =>
                \E c \in Commits :
                    /\ c.height = h
                    /\ ~SeqHas(PooledAt(h), c)
                    /\ nonGossipedCommits' =
                           [nonGossipedCommits EXCEPT ![h] = Append(@, c)]
                    /\ gossipedCommits' = gossipedCommits]_vars

\* One height holds a gossiped commit and a list created after it with a
\* commit of the other validator, while a second height holds two
\* non-gossiped commits.
C26_Witness ==
    \E h, k \in CommitHeights :
        /\ h # k
        /\ Len(gossipedCommits[h]) = 1
        /\ Len(nonGossipedCommits[h]) = 1
        /\ Len(nonGossipedCommits[k]) = 2

\* Every check of validateCommit but the removal height passes for c.
OtherwiseValid(c) ==
    /\ c.blockID = HeaderID(c.height)
    /\ ~SeqHas(PooledAt(c.height), c)
    /\ \/ /\ c.height > poolPrecommitted - CommitRangeStored
          /\ c.height <= poolPrecommitted
       \/ c.height + 1 = heightNextBFTParameters
    /\ c.validatorAddress \in Validators
    /\ c.certificateSignature = c.validatorAddress

\* C27: with maxRemovalHeight the aggregateCommit.height of the header at
\* the finalized height, validateCommit answers false for every commit at
\* or below maxRemovalHeight, and true for a commit at maxRemovalHeight + 1
\* that passes every other check.
C27_RemovalHeightBoundary ==
    [][validated'.result # "none" =>
        LET c == validated'.commit
            maxRemovalHeight == aggregateCommitHeight[poolFinalizedHeight]
        IN  /\ c.height <= maxRemovalHeight => validated'.result = "false"
            /\ (c.height = maxRemovalHeight + 1 /\ OtherwiseValid(c))
                   => validated'.result = "true"]_vars

\* validateCommit has answered false for a commit at a maxRemovalHeight
\* above genesis that would pass every other check.
C27_Witness ==
    /\ validated.result = "false"
    /\ validated.commit.height = aggregateCommitHeight[poolFinalizedHeight]
    /\ OtherwiseValid(validated.commit)

\* The checks of validateCommit that answer false pass for c.
PassesQuietChecks(c) ==
    /\ c.height > aggregateCommitHeight[poolFinalizedHeight]
    /\ c.blockID = HeaderID(c.height)
    /\ ~SeqHas(PooledAt(c.height), c)
    /\ \/ /\ c.height > poolPrecommitted - CommitRangeStored
          /\ c.height <= poolPrecommitted
       \/ c.height + 1 = heightNextBFTParameters

\* The validator of c is active and the signature is its own.
Honest(c) ==
    /\ c.validatorAddress \in Validators
    /\ c.certificateSignature = c.validatorAddress

\* C28: validateCommit answers false, without raising, when the removal
\* height, block id, not-stored or range check fails; when those pass it
\* raises for an inactive validator or a signature that does not verify;
\* it never answers true for such a commit.
C28_FalseOrError ==
    [][validated'.result # "none" =>
        LET c == validated'.commit
        IN  /\ ~PassesQuietChecks(c) => validated'.result = "false"
            /\ (PassesQuietChecks(c) /\ ~Honest(c))
                   => validated'.result = "error"
            /\ validated'.result = "true" => Honest(c)]_vars

\* validateCommit has raised for a commit of an active validator whose
\* signature is another validator's, above the removal height, of a known
\* block and not stored.
C28_Witness ==
    /\ validated.result = "error"
    /\ validated.commit.validatorAddress \in Validators
    /\ validated.commit.certificateSignature \in Validators
    /\ PassesQuietChecks(validated.commit)

\* C29: in every state every commit held in the non-gossiped or the
\* gossiped pool has a height above maxRemovalHeight, whatever the order of
\* addCommit, job and the block processing that moves the finalized height.
C29_PoolAboveRemovalHeight ==
    \A h \in CommitHeights :
        \A i \in 1..Len(PooledAt(h)) :
            PooledAt(h)[i].height > aggregateCommitHeight[poolFinalizedHeight]

RECURSIVE TotalWeight(_)
TotalWeight(vs) ==
    IF vs = {} THEN 0
    ELSE LET v == CHOOSE x \in vs : TRUE
         IN  BftWeight(v) + TotalWeight(vs \ {v})

\* The validators with a commit in either pool at height h.
Committing(h) ==
    {v \in Validators :
        \E i \in 1..Len(PooledAt(h)) : PooledAt(h)[i].validatorAddress = v}

\* The heights selectAggregateCommit may certify.
SelectionRange ==
    {h \in CommitHeights :
        /\ h > maxHeightCertified
        /\ h <= poolPrecommitted
        /\ heightNextBFTParameters > maxHeightCertified
               => h <= heightNextBFTParameters - 1}

\* The heights of the range whose committing validators reach the
\* certificate threshold.
Certifiable ==
    {h \in SelectionRange : TotalWeight(Committing(h)) >= CertificateThreshold}

\* C30: selectAggregateCommit answers the aggregate of all pooled commits at
\* the greatest height of (maxHeightCertified, min(nextParamChange - 1,
\* maxHeightPrecommitted)] whose committing validators reach the certificate
\* threshold, with maxHeightPrecommitted as the upper end when no parameter
\* change follows, and the empty aggregate at maxHeightCertified exactly when
\* no height of the range reaches it; job() publishes that answer.
C30_SelectsGreatestCertifiable ==
    /\ [](LET r == SelectAggregateCommit(nonGossipedCommits, gossipedCommits)
          IN  IF Certifiable = {}
              THEN r = EmptyAggregate(maxHeightCertified)
              ELSE /\ r.height \in Certifiable
                   /\ \A h \in Certifiable : h <= r.height
                   /\ r.aggregationBits = Committing(r.height)
                   /\ r.aggregationBits # {})
    /\ [][selected' # selected =>
            selected' = SelectAggregateCommit(nonGossipedCommits',
                                              gossipedCommits')]_vars

\* job() has published the aggregate of the upper of two certifiable
\* heights, signed by both validators.
C30_Witness ==
    /\ Cardinality(Certifiable) = 2
    /\ selected = SelectAggregateCommit(nonGossipedCommits, gossipedCommits)
    /\ selected.height = MaxCommitHeight
    /\ selected.aggregationBits = Validators
    /\ nonGossipedCommits = EmptyPool

\* The weight of a set of validators.
RECURSIVE WeightOf(_)
WeightOf(vs) ==
    IF vs = {} THEN 0
    ELSE LET v == CHOOSE x \in vs : TRUE IN v + WeightOf(vs \ {v})

\* C31: verifyAggregateCommit answers true only for an aggregate with a
\* signature and bits, at a height above maxHeightCertified and at most
\* maxHeightPrecommitted, at most the next parameter change minus one when
\* there is one, whose selected validators weigh at least the certificate
\* threshold and whose signature is theirs.
C31_AcceptedAggregateIsCertified ==
    [][aggregateVerified'.result = "true" =>
        LET a == aggregateVerified'.aggregate
        IN  /\ a.certificateSignature # {}
            /\ a.aggregationBits # {}
            /\ a.height > maxHeightCertified
            /\ a.height <= poolPrecommitted
            /\ heightNextBFTParameters > maxHeightCertified
                   => a.height <= heightNextBFTParameters - 1
            /\ WeightOf(a.aggregationBits) >= NumValidators
            /\ a.certificateSignature = a.aggregationBits]_vars

\* verifyAggregateCommit has accepted an aggregate at the height just below
\* the next parameter change, above a certified height that is not genesis.
C31_Witness ==
    /\ aggregateVerified.result = "true"
    /\ aggregateVerified.aggregate.height = heightNextBFTParameters - 1
    /\ maxHeightCertified > 0

\* Task t waits in the queue of the mutex.
Queued(t) == \E i \in 1..Len(mutexQueue) : mutexQueue[i] = t

\* C32: a synchronization started by onBlockReceive never deadlocks on the
\* mutex: the call that runs it, and so holds the mutex, never waits in the
\* queue of that mutex for a deleteLastBlock of its own.
C32_SyncNeverWaitsForItself ==
    \A t \in Tasks :
        ~(op[t] = "onBlockReceive" /\ pc[t] = "wait_delete" /\ Queued(t))

\* C33: a block is announced with BLOCK_BROADCAST only once it has been
\* executed and persisted: when a call has ended, every BLOCK_BROADCAST it
\* emitted is followed by the BLOCK_NEW of the same block.
C33_BroadcastOnlyOfSavedBlocks ==
    \A t \in Tasks :
        pc[t] = "done" =>
            \A i \in 1..Len(emitted[t]) :
                IsBroadcast(emitted[t][i]) =>
                    \E j \in (i + 1)..Len(emitted[t]) :
                        /\ IsNew(emitted[t][j])
                        /\ emitted[t][j].id = emitted[t][i].id

\* Task t runs a synchronization inside its onBlockReceive call.
Synchronizing(t) ==
    op[t] = "onBlockReceive" /\ pc[t] \in {"sync", "wait_delete"}

\* C34: blocks are dropped, not queued, behind a synchronization: while an
\* onBlockReceive call runs one under the mutex, no other received block
\* waits on the mutex to be processed after it.
C34_NothingQueuedBehindSync ==
    \A t \in Tasks :
        Synchronizing(t) =>
            \A u \in Tasks \ {t} :
                ~(op[u] = "onBlockReceive" /\ pc[u] = "wait_receive")

\* C35: stop() called while a synchronization is running eventually returns.
C35_StopReturnsDuringSync ==
    \A t \in Tasks :
        (/\ op[t] = "stop"
         /\ pc[t] = "wait_stop"
         /\ \E u \in Tasks : Synchronizing(u)) ~> (pc[t] = "done")

\* The entries of a state diff that name the key of bytes b.
ListedUpdated(diff, b) ==
    { i \in 1..Len(diff.updated) :
        diff.updated[i].key = <<DB_KEY_CONSENSUS_STATE, b>> }
ListedCreated(diff, b) ==
    { i \in 1..Len(diff.created) :
        diff.created[i] = <<DB_KEY_CONSENSUS_STATE, b>> }
Finalized == css_pc \in {"finalized", "written", "reverted"}

\* C36: finalize puts every updated key on the batch, the finalized-height
\* key too, but the finalized-height key is never in the returned diff,
\* neither created nor updated, whichever Buffer was used to get or set it;
\* and applying the reverse diff leaves the stored finalized height alone.
C36_FinalizedHeightNeverDiffed ==
    /\ [](Finalized =>
            /\ \A key \in SeqOf(css_updatedKeys) :
                   \E i \in 1..Len(css_batch) :
                       css_batch[i].key[2] = key.bytes
            /\ ListedUpdated(css_stateDiff,
                             CONSENSUS_STATE_FINALIZED_HEIGHT_KEY) = {}
            /\ ListedCreated(css_stateDiff,
                             CONSENSUS_STATE_FINALIZED_HEIGHT_KEY) = {})
    /\ [][css_pc' = "reverted" =>
            /\ Has(css_db', CONSENSUS_STATE_FINALIZED_HEIGHT_KEY)
            /\ css_db'[CONSENSUS_STATE_FINALIZED_HEIGHT_KEY]
                   = css_db[CONSENSUS_STATE_FINALIZED_HEIGHT_KEY]]_vars

\* The keys set during the block, by their bytes, the finalized height apart.
SetBytes ==
    { key.bytes : key \in SeqOf(css_updatedKeys) }
        \ {CONSENSUS_STATE_FINALIZED_HEIGHT_KEY}

\* C37: the diff finalize returns is the exact reverse diff: a key set
\* during the block is listed as updated, with the value the database held,
\* when it was there with another value, as created when it was not there,
\* and not at all when its value is unchanged, read before or not; no key is
\* listed twice; and when nothing was set the diff and the batch are empty.
C37_ExactReverseDiff ==
    css_pc = "finalized" =>
        /\ \A b \in SetBytes :
              LET updated == ListedUpdated(css_stateDiff, b)
                  created == ListedCreated(css_stateDiff, b)
                  changed == Has(css_db, b) /\ css_db[b] # css_data[b]
              IN  /\ (updated # {}) = changed
                  /\ \A i \in updated :
                         css_stateDiff.updated[i].value = css_db[b]
                  /\ (created # {}) = ~Has(css_db, b)
                  /\ Cardinality(updated) + Cardinality(created) <= 1
        /\ css_updatedKeys = <<>> =>
              css_stateDiff = EmptyStateDiff /\ css_batch = <<>>

\* The names a registerChannel call was given, as the bus keys them.
CallNames(moduleAlias, names) ==
    { FullName(moduleAlias, names[i]) : i \in 1..Len(names) }

\* A step that registers all of one call: its events, its actions and its
\* channel.
RegistersAll ==
    \E moduleAlias \in ModuleAliases, events \in NameArrays(EventNames),
       actions \in NameArrays(ActionNames) :
        /\ busEvents' = busEvents \cup CallNames(moduleAlias, events)
        /\ busActions' = busActions \cup CallNames(moduleAlias, actions)
        /\ moduleAlias \in DOMAIN busChannels'
        /\ busChannels'[moduleAlias].events = events
        /\ busChannels'[moduleAlias].actions = actions
        /\ \A other \in DOMAIN busChannels \ {moduleAlias} :
               /\ other \in DOMAIN busChannels'
               /\ busChannels'[other] = busChannels[other]

\* C38: registerChannel registers all the events and actions it was given
\* and the channel, or, when one of the names is registered already for the
\* module alias, throws and leaves events, actions and channels as they
\* were; so no listed name belongs to a channel that is not registered.
C38_RegisterChannelAllOrNothing ==
    /\ [](\A n \in getEvents \cup getActions : n[1] \in DOMAIN busChannels)
    /\ [][IF busError' = "none"
          THEN RegistersAll
          ELSE UNCHANGED <<busEvents, busActions, busChannels>>
         ]_<<busEvents, busActions, busChannels, busError>>

\* C39: a listener added with once is called for the first publish of its
\* event after it was added and never again, with IPC or without; a
\* listener added with subscribe is called for every publish, also when it
\* subscribed before the event was registered.
C39_OnceAndSubscribe ==
    \A cb \in Listeners :
        LET l == busListeners[cb]
        IN  /\ l.kind = "once" =>
                l.invoked = (IF l.published > 0 THEN 1 ELSE 0)
            /\ l.kind = "subscribe" => l.invoked = l.published

\* C40: processSignature adds a verified signature that is not yet among
\* the signatures of the pooled transaction and rejects one that is with
\* 'signature already exists'; so the list never holds a signature twice,
\* and a signature that was accepted was added once.
C40_SignaturesAddedOnce ==
    /\ [](\A i, j \in 1..Len(msTransaction.signatures) :
              msTransaction.signatures[i] = msTransaction.signatures[j]
              => i = j)
    /\ [][LET call == msCall'
              before == msTransaction.signatures
              after == msTransaction'.signatures
          IN  (/\ call.signature.transactionId = PooledId
               /\ call.error \notin {"signature not provided",
                                     "account not found"})
              => IF includes(before, call.signature.signature)
                 THEN /\ call.error = "signature already exists"
                      /\ after = before
                 ELSE IF isValidSignature(call.signature, Members)
                 THEN /\ call.error = "none"
                      /\ after = Append(before, call.signature.signature)
                 ELSE call.error # "none" /\ after = before]_msVars

====
